---- MODULE Spec2Model ----
(***************************************************************************)
(* Electron Cloud Visualizer: the quantum probability sampling engine      *)
(* (special functions, wave-function evaluator, CDF particle sampler) and  *)
(* the application controller's progressive visualization update.          *)
(*                                                                         *)
(* Real numbers are fixed-point integers: the integer v stands for v / FP. *)
(* Every product is rescaled by FP right away, so all intermediate values  *)
(* stay inside 32-bit integers.  NaN is a value of its own; no other       *)
(* non-finite value arises in the ranges the model covers.                 *)
(***************************************************************************)
EXTENDS Integers, Sequences, FiniteSets, TLC

\* ------------------------------------------------------------------------
\* Bounds of the model
\* ------------------------------------------------------------------------
\* fixed-point scale, three decimal digits: v stands for v / FP
FP == 10 * 10 * 10
\* largest principal quantum number passed to the engine
MaxN == 2
\* CONSTANTS.MIN_PARTICLE_COUNT (5000 in the source), scaled
MIN_PARTICLE_COUNT == 1
\* CONSTANTS.MAX_PARTICLE_COUNT (1000000 in the source), scaled
MAX_PARTICLE_COUNT == 2
\* size of the pilot pass, Math.min(100, count) in the source, scaled
PILOT_SIZE == 1
\* default resolution of the radial table (1000 in the source), scaled
RADIAL_RESOLUTION == 4
\* default resolution of the polar and azimuthal tables (500), scaled
ANGULAR_RESOLUTION == 4
\* CONSTANTS.DEFAULT_PARTICLE_COUNT (100000 in the source), scaled
DEFAULT_PARTICLE_COUNT == 4
\* number of updateVisualization invocations in one behaviour
MaxRuns == 2
\* number of calls of the controller's settings methods in one behaviour
MaxSetterCalls == 2
\* width of the significand of a Number holding an integer (53 bits in an
\* IEEE 754 double), scaled
SignificandBits == 10

\* values the three Math.random() calls of one loop iteration of
\* generateOrbitalParticles return (radius, theta, phi)
DrawTriples ==
    {<<0, 0, 0>>, <<FP \div 2, FP \div 4, FP \div 2>>,
     <<FP - 1, FP - 1, FP - 1>>}
\* the draw triples fed to a call that is replayed
SeededDraws ==
    {<<FP \div 2, FP \div 4, FP \div 2>>, <<FP - 1, FP - 1, FP - 1>>}
\* values Math.random() returns in a direct call of one sampler
SamplerDraws == {0, 1, FP \div 4, FP \div 2, FP - 1}
\* particle counts requested from generateOrbitalParticles
RequestCounts == {0, MAX_PARTICLE_COUNT, MAX_PARTICLE_COUNT + 2}
\* quantum numbers passed to the engine, valid and invalid
NValues == 0 .. MaxN
LValues == -1 .. MaxN
MValues == -MaxN .. MaxN
\* resolutions passed to a sampler called directly
RadialResolutions == {0, 1, RADIAL_RESOLUTION}
AngularResolutions == {0, 1, ANGULAR_RESOLUTION}
\* atomic numbers passed to QuantumMechanicsEngine.setAtomicNumber
EngineAtomicNumbers == {0, 2, 200}
\* arguments of factorial calls made outside the sampler
FactorialArgs == {1, 3}
\* arguments of factorial called directly
FactorialCallArgs == {-1, 0, 1, 4, 9}
\* arguments x of legendrePolynomial called directly
LegendreArgs == {-2 * FP, -FP, 0, FP \div 2, FP}
\* radii passed to radialWaveFunction called directly
RadialArgs == {-FP, 0, FP \div 2, 2 * FP}
\* polar and azimuthal angles passed to a function called directly
ThetaArgs == {FP \div 2}
PhiArgs == {FP}
\* atomic numbers passed to ApplicationController.setAtomicNumber
AtomicNumbers == {0, 5, 200}
\* orbitals whose visibility the user toggles
VisibilityTargets == {<<1, 0, 0>>, <<2, 1, 0>>}

VARIABLES
    Z,               \* QuantumMechanicsEngine.Z
    factorialCache,  \* the process-wide cache of factorial
    gen,             \* the generateOrbitalParticles call in progress
    smp,             \* the latest direct call of a sampler, of an engine
                     \* function or of a utility, and its result
    ref,             \* an earlier generateOrbitalParticles call, kept to
                     \* compare a later call with
    app,             \* the ApplicationController's fields
    runs,            \* the updateVisualization invocations, oldest first
    rendered         \* VisualizationRenderer.orbitals: id -> particle count

vars == <<Z, factorialCache, gen, smp, ref, app, runs, rendered>>

\* the controller's and the renderer's state
appVars == <<app, runs, rendered>>

\* ------------------------------------------------------------------------
\* Fixed-point arithmetic (JavaScript Number arithmetic and Math.*)
\* ------------------------------------------------------------------------
Abs(x) == IF x < 0 THEN -x ELSE x

Sgn(x) == IF x < 0 THEN -1 ELSE 1

Min(a, b) == IF a < b THEN a ELSE b

Max(a, b) == IF a > b THEN a ELSE b

\* a * b, rounded towards zero; the larger factor is split so that the
\* intermediate products stay in range
Mul(a, b) ==
    LET hi == Max(Abs(a), Abs(b))
        lo == Min(Abs(a), Abs(b))
    IN  Sgn(a) * Sgn(b) * ((hi \div FP) * lo + ((hi % FP) * lo) \div FP)

\* a / b for b # 0, rounded towards zero; also the quotient of two integers
\* as a fixed-point number
Div(a, b) ==
    LET p == Abs(a)
        q == Abs(b)
    IN  Sgn(a) * Sgn(b) * ((p \div q) * FP + ((p % q) * FP) \div q)

\* the integer k as a fixed-point number
Fix(k) == k * FP

\* largest s in 0..46340 with s * s <= v, by bisection (46340^2 < 2^31)
ISqrt(v) ==
    LET b[i \in 0 .. 16] ==
            IF i = 0 THEN <<0, 46340>>
            ELSE LET prev == b[i - 1]
                     lo == prev[1]
                     hi == prev[2]
                     mid == (lo + hi + 1) \div 2
                 IN  IF lo >= hi THEN <<lo, hi>>
                     ELSE IF mid * mid <= v THEN <<mid, hi>>
                     ELSE <<lo, mid - 1>>
    IN  b[16][1]

\* Math.sqrt(x) for x >= 0
Sqrt(x) == ISqrt(x * FP)

\* Math.PI
PI == (31416 * FP) \div 10000

\* Math.E and Math.LN2, used by Exp and Ln
EULER == (27183 * FP) \div 10000

LN2 == (6931 * FP) \div 10000

\* e^f for 0 <= f < 1: the sum of the terms f^k / k! for k = 0 .. 8
ExpSeries(f) ==
    LET t[k \in 0 .. 8] ==
            IF k = 0 THEN <<FP, FP>>
            ELSE LET prev == t[k - 1]
                     term == Mul(prev[1], f) \div k
                 IN  <<term, prev[2] + term>>
    IN  t[8][2]

\* e^x for x >= 0
ExpPos(x) ==
    LET p[j \in 0 .. (x \div FP)] ==
            IF j = 0 THEN ExpSeries(x % FP) ELSE Mul(EULER, p[j - 1])
    IN  p[x \div FP]

\* Math.exp(x); underflows to 0 for very negative x as the source's does
Exp(x) ==
    IF x >= 0 THEN ExpPos(x)
    ELSE IF -x > 14 * FP THEN 0
    ELSE Div(FP, ExpPos(-x))

\* ln on [1, 2]: 2 * (z + z^3/3 + z^5/5 + z^7/7), z = (x - 1) / (x + 1)
LnSeries(x) ==
    LET z == Div(x - FP, x + FP)
        z2 == Mul(z, z)
        z3 == Mul(z, z2)
        z5 == Mul(z3, z2)
        z7 == Mul(z5, z2)
    IN  2 * (z + z3 \div 3 + z5 \div 5 + z7 \div 7)

\* Math.log(x) for x > 0: x is halved or doubled into [1, 2] first
Ln(x) ==
    LET h[i \in 0 .. 20] ==
            IF i = 0 THEN <<x, 0>>
            ELSE LET prev == h[i - 1]
                     y == prev[1]
                     acc == prev[2]
                 IN  IF y > 2 * FP THEN <<y \div 2, acc + LN2>>
                     ELSE IF y < FP THEN <<2 * y, acc - LN2>>
                     ELSE <<y, acc>>
        last == h[20]
    IN  last[2] + LnSeries(last[1])

\* Math.pow(x, k) for an integer k >= 0
IntPow(x, k) ==
    LET p[j \in 0 .. Max(k, 0)] == IF j = 0 THEN FP ELSE Mul(x, p[j - 1])
    IN  p[Max(k, 0)]

\* sin on [0, PI/2] by its Taylor polynomial
SinSeries(y) ==
    LET y2 == Mul(y, y)
        t3 == Mul(y, y2) \div 6
        t5 == Mul(t3, y2) \div 20
        t7 == Mul(t5, y2) \div 42
        t9 == Mul(t7, y2) \div 72
    IN  Min(FP, y - t3 + t5 - t7 + t9)

\* Math.sin(y) for y >= 0
Sin(y) ==
    LET a == y % (2 * PI)
    IN  IF a <= PI \div 2 THEN SinSeries(a)
        ELSE IF a <= PI THEN SinSeries(PI - a)
        ELSE IF a <= PI + PI \div 2 THEN -SinSeries(a - PI)
        ELSE -SinSeries(2 * PI - a)

\* Math.cos(y) for y >= 0
Cos(y) ==
    LET a == y % (2 * PI)
    IN  IF a <= PI \div 2 THEN SinSeries(PI \div 2 - a)
        ELSE IF a <= PI THEN -SinSeries(a - PI \div 2)
        ELSE IF a <= PI + PI \div 2 THEN -SinSeries(PI + PI \div 2 - a)
        ELSE SinSeries(a - PI - PI \div 2)

\* a / k for an integer k > 0, rounded towards zero
Over(a, k) == Sgn(a) * (Abs(a) \div k)

\* ------------------------------------------------------------------------
\* CONSTANTS
\* ------------------------------------------------------------------------
BOHR_RADIUS == (529 * FP) \div 1000

SCALE_FACTOR == 2 * FP

MAX_ATOMIC_NUMBER == 118
\* CONSTANTS.MAX_N
MAX_N == 7

TWO_PI == 2 * PI

\* ------------------------------------------------------------------------
\* Mathematical utilities (three-setup.js)
\* ------------------------------------------------------------------------
\* validateQuantumNumbers testing l > n where the source tests l >= n
validateQuantumNumbers_LooseL(n, l, m) ==
    IF n < 1 THEN FALSE
    ELSE IF l < 0 \/ l > n THEN FALSE
    ELSE IF Abs(m) > l THEN FALSE
    ELSE TRUE

\* TRUE when validateQuantumNumbers returns true, FALSE when it throws
validateQuantumNumbers(n, l, m) ==
    IF n < 1 THEN FALSE
    ELSE IF l < 0 \/ l >= n THEN FALSE
    ELSE IF Abs(m) > l THEN FALSE
    ELSE TRUE

\* the positive integer v as a Number holds: v rounded to SignificandBits
\* significant bits, to the nearest, a tie to the even significand
RoundNumber(v) ==
    LET unit == CHOOSE u \in {2 ^ k : k \in 0 .. 30 - SignificandBits} :
                    /\ v < u * 2 ^ SignificandBits
                    /\ u = 1 \/ v >= (u \div 2) * 2 ^ SignificandBits
        q == v \div unit
        rest == v % unit
    IN  IF 2 * rest > unit \/ (2 * rest = unit /\ q % 2 = 1)
        THEN (q + 1) * unit
        ELSE q * unit

\* the loop of factorial running while i < n
FactorialLoop_StopsBeforeN(n) ==
    LET f[i \in 1 .. Max(n, 1)] ==
            IF i = 1 THEN 1 ELSE RoundNumber(f[i - 1] * i)
    IN  f[Max(n - 1, 1)]

\* the loop of factorial: result = 1; result *= i for i = 2 .. n, every
\* product rounded to a Number
FactorialLoop(n) ==
    LET f[i \in 1 .. Max(n, 1)] ==
            IF i = 1 THEN 1 ELSE RoundNumber(f[i - 1] * i)
    IN  f[Max(n, 1)]

\* factorialCache[n], 0 standing for undefined (both are falsy)
CacheGet(cache, n) == IF n \in DOMAIN cache THEN cache[n] ELSE 0

CachePut(cache, n, v) ==
    [k \in DOMAIN cache \cup {n} |-> IF k = n THEN v ELSE cache[k]]

\* factorial storing (n - 1)! under n, so that a later hit returns another
\* value than the miss that stored it
factorial_StoresPredecessor(cache, n) ==
    IF n < 0 THEN [value |-> 0, cache |-> cache]
    ELSE IF n = 0 \/ n = 1 THEN [value |-> 1, cache |-> cache]
    ELSE IF CacheGet(cache, n) # 0
         THEN [value |-> CacheGet(cache, n), cache |-> cache]
    ELSE [value |-> FactorialLoop(n),
          cache |-> CachePut(cache, n, FactorialLoop(n - 1))]

\* factorial(n) run with the cache as it is: the value returned and the cache
\* it leaves
factorial(cache, n) ==
    IF n < 0 THEN [value |-> 0, cache |-> cache]
    ELSE IF n = 0 \/ n = 1 THEN [value |-> 1, cache |-> cache]
    ELSE IF CacheGet(cache, n) # 0
         THEN [value |-> CacheGet(cache, n), cache |-> cache]
    ELSE LET result == FactorialLoop(n)
         IN  [value |-> result, cache |-> CachePut(cache, n, result)]

\* -Infinity, returned by logFactorial for n < 0
NEG_INFINITY == -1000000000

logFactorial(n) ==
    LET f[i \in 1 .. Max(n, 1)] ==
            IF i = 1 THEN 0 ELSE f[i - 1] + Ln(Fix(i))
    IN  IF n < 0 THEN NEG_INFINITY
        ELSE IF n = 0 \/ n = 1 THEN 0
        ELSE f[n]

\* associated Laguerre polynomial L_n^k(x), n and k integers; L[i] is the
\* pair <<L_prev2, L_prev1>> after iteration i of the recurrence
laguerrePolynomial(n, k, x) ==
    LET L[i \in 1 .. Max(n, 1)] ==
            IF i = 1 THEN <<FP, Fix(1 + k) - x>>
            ELSE LET prev == L[i - 1]
                     prev2 == prev[1]
                     prev1 == prev[2]
                 IN  <<prev1,
                       Over(Mul(Fix(2 * i - 1 + k) - x, prev1)
                            - (i - 1 + k) * prev2, i)>>
    IN  IF n = 0 THEN FP
        ELSE IF n = 1 THEN Fix(1 + k) - x
        ELSE IF n < 2 THEN 0
        ELSE L[n][2]

\* NaN, the value of 0 / 0 and of the square root of a negative number
NaN == -2000000000

\* the loop computing P_m^m: pmm *= -fact * somx2; fact += 2
LegendrePmm(absM, somx2) ==
    LET P[i \in 0 .. absM] ==
            IF i = 0 THEN FP
            ELSE -Mul((2 * i - 1) * P[i - 1], somx2)
    IN  P[absM]

\* the recurrence for l > m + 1; P[ll] is the pair <<pmm, pmmp1>> after
\* its iteration ll
LegendreLoop(l, absM, x, pmm0, pmmp10) ==
    LET P[ll \in absM + 1 .. l] ==
            IF ll = absM + 1 THEN <<pmm0, pmmp10>>
            ELSE LET prev == P[ll - 1]
                     pmm == prev[1]
                     pmmp1 == prev[2]
                 IN  <<pmmp1,
                       Over(Mul(x, (2 * ll - 1) * pmmp1)
                            - (ll + absM - 1) * pmm, ll - absM)>>
    IN  P[l][2]

\* the iterations legendrePolynomial makes of its two loops, with the test
\* absM > l placed after the P_m^m loop
LegendreSteps_TestAfterPmm(l, m) ==
    LET absM == Abs(m)
    IN  IF absM > l THEN absM
        ELSE absM + (IF l > absM + 1 THEN l - absM - 1 ELSE 0)

\* the iterations legendrePolynomial(l, m, x) makes of its two loops: absM
\* of the P_m^m loop and l - absM - 1 of the recurrence
LegendreSteps(l, m) ==
    LET absM == Abs(m)
    IN  IF absM > l THEN 0
        ELSE absM + (IF l > absM + 1 THEN l - absM - 1 ELSE 0)

\* associated Legendre polynomial P_l^m(x), l and m integers; for |x| > 1
\* and m # 0 the square root, and with it the result, is NaN
legendrePolynomial(l, m, x) ==
    LET absM == Abs(m)
    IN  IF absM > l THEN 0
        ELSE IF absM > 0 /\ Abs(x) > FP THEN NaN
        ELSE LET somx2 == Sqrt(Mul(FP - x, FP + x))
                 pmm == IF absM > 0 THEN LegendrePmm(absM, somx2)
                        ELSE FP
                 pmmp1 == Mul(x, (2 * absM + 1) * pmm)
             IN  IF l = absM THEN pmm
                 ELSE IF l = absM + 1 THEN pmmp1
                 ELSE LegendreLoop(l, absM, x, pmm, pmmp1)

\* real spherical harmonic Y_l^m(theta, phi) run with the factorial cache as
\* it is: the value returned and the cache its two factorial calls leave
sphericalHarmonic(cache, l, m, theta, phi) ==
    LET absM == Abs(m)
        f1 == factorial(cache, l - absM)
        f2 == factorial(f1.cache, l + absM)
        numer == (2 * l + 1) * f1.value
        denom == 4 * PI * f2.value
        legendre == legendrePolynomial(l, absM, Cos(theta))
        angular == IF m = 0 THEN FP
                   ELSE IF m > 0 THEN Mul(Sqrt(Fix(2)), Cos(m * phi))
                   ELSE Mul(Sqrt(Fix(2)), Sin(absM * phi))
    IN  IF denom = 0
        THEN [value |-> NaN, cache |-> f2.cache]
        ELSE [value |-> Mul(Mul(Sqrt(Div(Fix(numer), denom)), legendre),
                            angular),
              cache |-> f2.cache]

\* ------------------------------------------------------------------------
\* QuantumMechanicsEngine (quantum-mechanics.js)
\* ------------------------------------------------------------------------
\* Math.max(1, Math.min(MAX_ATOMIC_NUMBER, Math.floor(Z)))
ClampAtomicNumber(z) == Max(1, Min(MAX_ATOMIC_NUMBER, z))

\* the formula of radialWaveFunction for r > 0 with nuclear charge Zc
RadialFormula(Zc, n, l, r) ==
    LET a0 == BOHR_RADIUS
        rho == Div(2 * Zc * r, n * a0)
        logNorm == Over(3 * Ln(Div(Fix(2 * Zc), n * a0))
                        + logFactorial(n - l - 1)
                        - Ln(Fix(2 * n))
                        - logFactorial(n + l), 2)
        norm == Exp(logNorm)
        expTerm == Exp(-Over(rho, 2))
        powerTerm == IntPow(rho, l)
        laguerre == laguerrePolynomial(n - l - 1, 2 * l + 1, rho)
    IN  Mul(Mul(Mul(norm, expTerm), powerTerm), laguerre)

\* radialWaveFunction reading this.Z where the source declares a local Z = 1
radialWaveFunction_ReadsZ(n, l, r) ==
    IF ~validateQuantumNumbers(n, l, 0) THEN 0
    ELSE IF r < 0 THEN 0
    ELSE IF r = 0 THEN (IF l = 0 THEN FP ELSE 0)
    ELSE RadialFormula(Z, n, l, r)

\* radialWaveFunction without the test r < 0
radialWaveFunction_NoNegativeTest(n, l, r) ==
    IF ~validateQuantumNumbers(n, l, 0) THEN 0
    ELSE IF r = 0 THEN (IF l = 0 THEN FP ELSE 0)
    ELSE RadialFormula(1, n, l, r)

\* radialWaveFunction returning 1 at the origin whatever l is
radialWaveFunction_OriginAlwaysOne(n, l, r) ==
    IF ~validateQuantumNumbers(n, l, 0) THEN 0
    ELSE IF r < 0 THEN 0
    ELSE IF r = 0 THEN FP
    ELSE RadialFormula(1, n, l, r)

\* radialWaveFunction whose catch block returns 1
radialWaveFunction_CatchReturnsOne(n, l, r) ==
    IF ~validateQuantumNumbers(n, l, 0) THEN FP
    ELSE IF r < 0 THEN 0
    ELSE IF r = 0 THEN (IF l = 0 THEN FP ELSE 0)
    ELSE RadialFormula(1, n, l, r)

\* R(n, l, r); a validation error is caught and turned into 0
radialWaveFunction(n, l, r) ==
    IF ~validateQuantumNumbers(n, l, 0) THEN 0
    ELSE IF r < 0 THEN 0
    ELSE IF r = 0 THEN (IF l = 0 THEN FP ELSE 0)
    ELSE RadialFormula(1, n, l, r)

\* radialWaveFunction for the arguments of the direct calls
RadialValueOf ==
    [n \in NValues, l \in LValues, r \in RadialArgs |->
        radialWaveFunction(n, l, r)]

angularWaveFunction(cache, l, m, theta, phi) ==
    sphericalHarmonic(cache, l, m, theta, phi)

\* the product R * Y of waveFunction, 0 when it is not finite
RadialTimesAngular(radial, angular) ==
    IF angular.value = NaN
    THEN [value |-> 0, cache |-> angular.cache]
    ELSE [value |-> Mul(radial, angular.value), cache |-> angular.cache]

\* psi = R * Y; 0 on a validation error or a non-finite product
waveFunction(cache, n, l, m, r, theta, phi) ==
    IF ~validateQuantumNumbers(n, l, m) THEN [value |-> 0, cache |-> cache]
    ELSE RadialTimesAngular(radialWaveFunction(n, l, r),
                            angularWaveFunction(cache, l, m, theta, phi))

\* psi * psi
PsiSquared(psi) == [value |-> Mul(psi.value, psi.value), cache |-> psi.cache]

\* |psi|^2
probabilityDensity(cache, n, l, m, r, theta, phi) ==
    PsiSquared(waveFunction(cache, n, l, m, r, theta, phi))

\* ------------------------------------------------------------------------
\* ParticleSampler (quantum-mechanics.js)
\* ------------------------------------------------------------------------
sphericalToCartesian(r, theta, phi) ==
    [x |-> Mul(Mul(r, Sin(theta)), Cos(phi)),
     y |-> Mul(Mul(r, Sin(theta)), Sin(phi)),
     z |-> Mul(r, Cos(theta))]

\* the table loop shared by the three samplers: for i = 0 .. resolution - 1,
\* sum += prob; cdf.push(sum), prob[i + 1] being the prob of iteration i.
\* Entry i of the source's cdf is entry i + 1 here.
BuildCdf(prob) ==
    LET c[i \in 0 .. Len(prob)] ==
            IF i = 0 THEN <<>>
            ELSE LET cdf == c[i - 1]
                     sum == IF i = 1 THEN 0 ELSE cdf[i - 1]
                 IN  Append(cdf, sum + prob[i])
    IN  c[Len(prob)]

\* the scan with "rand < cdf[i]" where the source has "rand <= cdf[i]"
ScanCdf_Strict(cdf, sum, rand) ==
    LET hits == {i \in 0 .. Len(cdf) - 1 : rand < Div(cdf[i + 1], sum)}
    IN  IF sum = 0 \/ hits = {} THEN -1
        ELSE CHOOSE i \in hits : \A j \in hits : i <= j

\* the scan "if (rand <= cdf[i]) return ..." over the normalized table: the
\* 0-based index at which the scan returns, or -1 when it falls through
ScanCdf(cdf, sum, rand) ==
    LET hits == {i \in 0 .. Len(cdf) - 1 : rand <= Div(cdf[i + 1], sum)}
    IN  IF sum = 0 \/ hits = {} THEN -1
        ELSE CHOOSE i \in hits : \A j \in hits : i <= j

\* the grid point computed from i + 1 where the source uses i
GridPoint_OffByOne(lo, span, i, resolution) ==
    lo + Mul(Div(i + 1, resolution), span)

\* the grid point i of a table over [lo, lo + span)
GridPoint(lo, span, i, resolution) == lo + Mul(Div(i, resolution), span)

RadiusMax(n) == 3 * n * n * BOHR_RADIUS

RadiusMin == Over(BOHR_RADIUS, 100)

\* one entry of the radial table: r * r * R * R
RadialProbability(r, R) == Mul(Mul(r, r), Mul(R, R))

\* the entry of the radial table at r
RadialProbabilityAt(n, l, r) ==
    RadialProbability(r, radialWaveFunction(n, l, r))

\* the radial table before normalization
RadialTable(n, l, resolution) ==
    BuildCdf([k \in 1 .. resolution |->
                 RadialProbabilityAt(
                     n, l,
                     GridPoint(RadiusMin, RadiusMax(n) - RadiusMin, k - 1,
                               resolution))])

\* the tables the samplers build, tabulated over the arguments the model
\* passes (a table depends on nothing but these arguments)
RadialTableOf ==
    [n \in NValues, l \in LValues, k \in RadialResolutions |->
        RadialTable(n, l, k)]

\* the last entry of a table: the sum of its probabilities
TableSum(cdf) == IF Len(cdf) = 0 THEN 0 ELSE cdf[Len(cdf)]

\* RadiusFromTable returning maxR where the source's fallback returns maxR / 2
RadiusFromTable_FallbackMaxR(cdf, n, resolution, rand) ==
    LET maxR == RadiusMax(n)
        minR == RadiusMin
        sum == TableSum(cdf)
        i == ScanCdf(cdf, sum, rand)
    IN  IF sum = 0
        THEN [value |-> maxR, path |-> "fallback", drew |-> FALSE]
        ELSE IF i >= 0
        THEN [value |-> GridPoint(minR, maxR - minR, i, resolution),
              path |-> "scan", drew |-> TRUE]
        ELSE [value |-> maxR, path |-> "fallthrough", drew |-> TRUE]

\* sampleRadius from its table on: the zero-sum fallback, the draw and the
\* scan
RadiusFromTable(cdf, n, resolution, rand) ==
    LET maxR == RadiusMax(n)
        minR == RadiusMin
        sum == TableSum(cdf)
        i == ScanCdf(cdf, sum, rand)
    IN  IF sum = 0
        THEN [value |-> Over(maxR, 2), path |-> "fallback", drew |-> FALSE]
        ELSE IF i >= 0
        THEN [value |-> GridPoint(minR, maxR - minR, i, resolution),
              path |-> "scan", drew |-> TRUE]
        ELSE [value |-> maxR, path |-> "fallthrough", drew |-> TRUE]

\* sampleRadius(n, l, resolution) when Math.random() returns rand: the value
\* returned, the path taken and whether Math.random() was called
sampleRadius(n, l, resolution, rand) ==
    RadiusFromTable(RadialTableOf[n, l, resolution], n, resolution, rand)

ThetaEpsilon == Over(FP, 1000)

\* one entry of the polar table: P * P * sin(theta)
ThetaProbability(legendre, theta) ==
    Mul(Mul(legendre, legendre), Sin(theta))

\* the entry of the polar table at theta
ThetaProbabilityAt(l, m, theta) ==
    ThetaProbability(legendrePolynomial(l, Abs(m), Cos(theta)), theta)

\* the polar table before normalization
ThetaTable(l, m, resolution) ==
    BuildCdf([k \in 1 .. resolution |->
                 ThetaProbabilityAt(
                     l, m,
                     GridPoint(ThetaEpsilon, PI - 2 * ThetaEpsilon, k - 1,
                               resolution))])

ThetaTableOf ==
    [l \in LValues, m \in MValues, k \in AngularResolutions |->
        ThetaTable(l, m, k)]

\* sampleTheta from its table on
ThetaFromTable(cdf, resolution, rand) ==
    LET epsilon == ThetaEpsilon
        sum == TableSum(cdf)
        i == ScanCdf(cdf, sum, rand)
    IN  IF sum = 0
        THEN [value |-> Over(PI, 2), path |-> "fallback", drew |-> FALSE]
        ELSE IF i >= 0
        THEN [value |-> GridPoint(epsilon, PI - 2 * epsilon, i, resolution),
              path |-> "scan", drew |-> TRUE]
        ELSE [value |-> Over(PI, 2), path |-> "fallthrough", drew |-> TRUE]

sampleTheta(l, m, resolution, rand) ==
    ThetaFromTable(ThetaTableOf[l, m, resolution], resolution, rand)

\* val * val
Squared(val) == Mul(val, val)

\* the entry of the azimuthal table at phi
PhiProbabilityAt(m, phi) ==
    Squared(IF m > 0 THEN Cos(m * phi) ELSE Sin(Abs(m) * phi))

\* the azimuthal table before normalization (m # 0)
PhiTable(m, resolution) ==
    BuildCdf([k \in 1 .. resolution |->
                 PhiProbabilityAt(m, GridPoint(0, TWO_PI, k - 1, resolution))])

PhiTableOf ==
    [m \in MValues, k \in AngularResolutions |-> PhiTable(m, k)]

\* samplePhi for m # 0 from its table on
PhiFromTable(cdf, resolution, rand) ==
    LET sum == TableSum(cdf)
        i == ScanCdf(cdf, sum, rand)
    IN  IF sum = 0
        THEN [value |-> Mul(rand, TWO_PI), path |-> "fallback", drew |-> TRUE]
        ELSE IF i >= 0
        THEN [value |-> GridPoint(0, TWO_PI, i, resolution),
              path |-> "scan", drew |-> TRUE]
        ELSE [value |-> Over(TWO_PI, 2), path |-> "fallthrough",
              drew |-> TRUE]

samplePhi(m, resolution, rand) ==
    IF m = 0
    THEN [value |-> Mul(rand, TWO_PI), path |-> "uniform", drew |-> TRUE]
    ELSE PhiFromTable(PhiTableOf[m, resolution], resolution, rand)

\* the clamp without its lower bound
ClampCount_NoLowerBound(particleCount) ==
    Min(particleCount, MAX_PARTICLE_COUNT)

\* Math.max(MIN_PARTICLE_COUNT, Math.min(particleCount, MAX_PARTICLE_COUNT))
ClampCount(particleCount) ==
    Max(MIN_PARTICLE_COUNT, Min(particleCount, MAX_PARTICLE_COUNT))

\* what one iteration of either loop of generateOrbitalParticles holds after
\* its four calls: the sampled coordinates, the density pd there and the
\* Cartesian position, with the draws Math.random() was asked for
PointRecord(sr, st, sp, pd, m, u1, u2, u3) ==
    [r |-> sr.value, theta |-> st.value, phi |-> sp.value,
     prob |-> pd.value, cache |-> pd.cache,
     position |-> sphericalToCartesian(Mul(sr.value, SCALE_FACTOR),
                                       st.value, sp.value),
     drawn |-> (IF sr.drew THEN <<u1>> ELSE <<>>)
               \o (IF st.drew THEN <<u2>> ELSE <<>>)
               \o (IF sp.drew THEN <<u3>> ELSE <<>>),
     phiTable |-> m # 0]

\* the density call of an iteration, made at the three sampled coordinates
PointAt(cache, n, l, m, sr, st, sp, u1, u2, u3) ==
    PointRecord(sr, st, sp,
                probabilityDensity(cache, n, l, m,
                                   sr.value, st.value, sp.value),
                m, u1, u2, u3)

\* one iteration of either loop of generateOrbitalParticles: the three
\* sampler calls and the density at the sampled point
SamplePoint(cache, n, l, m, u1, u2, u3) ==
    PointAt(cache, n, l, m,
            sampleRadius(n, l, RADIAL_RESOLUTION, u1),
            sampleTheta(l, m, ANGULAR_RESOLUTION, u2),
            samplePhi(m, ANGULAR_RESOLUTION, u3),
            u1, u2, u3)

\* the keys the factorial cache can hold and the caches it can be: a key's
\* entry is what the call that missed it stored
FactorialKeys == 2 .. 2 * MaxN

CacheOver(keys) ==
    IF keys = {} THEN <<>>
    ELSE [k \in keys |-> factorial(<<>>, k).cache[k]]

Caches == {CacheOver(keys) : keys \in SUBSET FactorialKeys}

\* SamplePoint for every cache, every valid orbital and every draw triple
SamplePointOf ==
    [cache \in Caches, n \in 1 .. MaxN, l \in 0 .. MaxN - 1,
     m \in MValues, u \in DrawTriples |->
        IF validateQuantumNumbers(n, l, m)
        THEN SamplePoint(cache, n, l, m, u[1], u[2], u[3])
        ELSE [cache |-> cache]]

\* the pilot loop's update "if (prob > maxProb) maxProb = prob"
PilotMax(maxProb, prob) == IF prob > maxProb THEN prob ELSE maxProb

\* the particle carrying the density itself, not divided by maxProb
MakeParticle_Unnormalized(pt, maxProb) ==
    [position |-> pt.position, probability |-> pt.prob]

\* the particle pushed by the batch loop
MakeParticle(pt, maxProb) ==
    [position |-> pt.position,
     probability |-> IF maxProb > 0 THEN Div(pt.prob, maxProb) ELSE 0]

\* ------------------------------------------------------------------------
\* ElectronConfiguration (electron-configuration.js)
\* ------------------------------------------------------------------------
\* the subshells generated without the loop condition l < n
Subshells_NoShellLimit == (1 .. MAX_N) \X (0 .. 3)

\* the subshells (n, l) generated by the loops of build: l < n, l <= 3
Subshells == {<<n, l>> \in (1 .. MAX_N) \X (0 .. 3) : l < n}

\* the comparator sorting by n, then by l
SubshellBefore_ByShell(a, b) ==
    \/ a[1] < b[1]
    \/ a[1] = b[1] /\ a[2] < b[2]

\* the comparator of both sorts: by energy n + l, then by n
SubshellBefore(a, b) ==
    \/ a[1] + a[2] < b[1] + b[2]
    \/ a[1] + a[2] = b[1] + b[2] /\ a[1] < b[1]

\* subshellArray after the sort
SubshellArray ==
    [i \in 1 .. Cardinality(Subshells) |->
        CHOOSE a \in Subshells :
            Cardinality({b \in Subshells : SubshellBefore(b, a)}) = i - 1]

\* the first pass of build over subshellArray: electronsInSubshell of each
\* subshell (0 once the electrons are used up, where the loop breaks) and
\* maxN, the highest n that holds electrons
FirstPass(atomicNumber) ==
    LET pass[i \in 0 .. Cardinality(Subshells)] ==
            IF i = 0
            THEN [remaining |-> atomicNumber, maxN |-> 0, electrons |-> <<>>]
            ELSE LET prev == pass[i - 1]
                     n == SubshellArray[i][1]
                     l == SubshellArray[i][2]
                     electronsInSubshell ==
                         IF prev.remaining <= 0 THEN 0
                         ELSE Min(prev.remaining, 2 * (2 * l + 1))
                 IN  [remaining |-> prev.remaining - electronsInSubshell,
                      maxN |-> IF electronsInSubshell > 0 /\ n > prev.maxN
                               THEN n ELSE prev.maxN,
                      electrons |-> Append(prev.electrons,
                                           electronsInSubshell)]
    IN  pass[Cardinality(Subshells)]

\* electronsPerOrbital[j] without the pairing loop
ElectronsPerOrbital_NoPairing(electronsInSubshell, numOrbitals, j) ==
    LET singleElectrons == Min(electronsInSubshell, numOrbitals)
    IN  IF j < singleElectrons THEN 1 ELSE 0

\* electronsPerOrbital[j] filled pair by pair from the first orbital on
ElectronsPerOrbital_PairsFirst(electronsInSubshell, numOrbitals, j) ==
    IF j < electronsInSubshell \div 2 THEN 2
    ELSE IF j = electronsInSubshell \div 2 THEN electronsInSubshell % 2
    ELSE 0

\* Hund's rule: electronsPerOrbital[j], j counted from 0
ElectronsPerOrbital(electronsInSubshell, numOrbitals, j) ==
    LET singleElectrons == Min(electronsInSubshell, numOrbitals)
        remainingToPair == electronsInSubshell - singleElectrons
    IN  (IF j < singleElectrons THEN 1 ELSE 0)
        + (IF j < remainingToPair THEN 1 ELSE 0)

\* the second pass of build: every orbital of every subshell that holds
\* electrons, m ascending, visible when in the outer shell
SecondPass(electrons, maxN) ==
    LET acc[i \in 0 .. Len(electrons)] ==
            IF i = 0 THEN <<>>
            ELSE LET prev == acc[i - 1]
                     n == SubshellArray[i][1]
                     l == SubshellArray[i][2]
                 IN  IF electrons[i] = 0 THEN prev
                     ELSE prev \o
                          [j \in 1 .. 2 * l + 1 |->
                              [n |-> n, l |-> l, m |-> j - 1 - l,
                               electrons |->
                                   ElectronsPerOrbital(electrons[i],
                                                       2 * l + 1, j - 1),
                               visible |-> n = maxN]]
    IN  acc[Len(electrons)]

\* the orbitals build() leaves in this.orbitals for the clamped atomic number
BuildOrbitals(atomicNumber) ==
    SecondPass(FirstPass(atomicNumber).electrons,
               FirstPass(atomicNumber).maxN)

\* ElectronConfiguration.getTotalElectrons() over this.orbitals
getTotalElectrons(orbitals) ==
    LET sum[i \in 0 .. Len(orbitals)] ==
            IF i = 0 THEN 0 ELSE sum[i - 1] + orbitals[i].electrons
    IN  sum[Len(orbitals)]

\* new ElectronConfiguration(z).build() for the atomic numbers the controller
\* is given, clamped
ConfigurationOf ==
    [z \in {Max(1, Min(MAX_ATOMIC_NUMBER, a)) : a \in AtomicNumbers} |->
        BuildOrbitals(z)]

\* ------------------------------------------------------------------------
\* ApplicationController (app-controller.js): updateVisualization
\* ------------------------------------------------------------------------
\* CONSTANTS.PARTICLE_SIZE, 0.05
PARTICLE_SIZE == (5 * FP) \div 100

\* CONSTANTS.PARTICLE_OPACITY, 1.0
PARTICLE_OPACITY == FP

\* CONSTANTS.PARTICLE_ANIMATION_SPEED, 1.0
PARTICLE_ANIMATION_SPEED == FP

\* the constructor's state.displaySettings without particleCount and
\* particleSize, which the controller below holds as fields of their own
DefaultDisplaySettings ==
    [opacity |-> PARTICLE_OPACITY, scale |-> FP, animationEnabled |-> TRUE,
     animationSpeed |-> PARTICLE_ANIMATION_SPEED, clippingEnabled |-> FALSE,
     clippingPosition |-> 0, clippingAxis |-> "y"]

\* the constructor's state.cameraSettings
DefaultCameraSettings ==
    [autoRotate |-> FALSE, rotationSpeed |-> FP \div 5, rotationAxis |-> "y"]

\* the clipping state of a VisualizationRenderer after its constructor and
\* setupClippingPlane(): clipping off, the constant of each axis' plane 0
RendererInit ==
    [clippingEnabled |-> FALSE, clippingPlanes |-> [x |-> 0, y |-> 0, z |-> 0]]

\* no call of a settings method yet
NoCall == [fn |-> "none", arg |-> 0, renderer |-> FALSE, threw |-> FALSE]

\* the controller after its constructor: no configuration yet; initialized
\* tells whether initialize() created this.renderer, renderer is that
\* renderer's clipping state, call the latest call of initialize, reset or a
\* settings method, and setterCalls the number of settings calls so far
AppInit ==
    [atomicNumber |-> 1, hasConfiguration |-> FALSE, orbitals |-> <<>>,
     spinner |-> FALSE, particleCount |-> DEFAULT_PARTICLE_COUNT,
     particleSize |-> PARTICLE_SIZE,
     displaySettings |-> DefaultDisplaySettings,
     cameraSettings |-> DefaultCameraSettings,
     initialized |-> FALSE, renderer |-> RendererInit,
     call |-> NoCall, setterCalls |-> 0]

\* Orbital.getId()
OrbitalId(o) == <<o.n, o.l, o.m>>

\* Math.floor(totalParticleCount * level) for levels 0.3, 0.6 and 1.0
LevelParticles(total, levelIndex) ==
    IF levelIndex = 0 THEN (total * 3) \div 10
    ELSE IF levelIndex = 1 THEN (total * 6) \div 10
    ELSE total

\* the count requested for one orbital at one level without the reduction
\* for empty orbitals
OrbitalParticleCount_SameForEmpty(o, total, levelIndex, numVisible) ==
    LET currentTotalParticles == LevelParticles(total, levelIndex)
    IN  IF numVisible > 0 THEN currentTotalParticles \div numVisible
        ELSE currentTotalParticles

\* the count requested for one orbital at one level; an empty orbital gets
\* 30% of the share
OrbitalParticleCount(o, total, levelIndex, numVisible) ==
    LET currentTotalParticles == LevelParticles(total, levelIndex)
        particleCountPerOrbital ==
            IF numVisible > 0 THEN currentTotalParticles \div numVisible
            ELSE currentTotalParticles
    IN  IF o.electrons > 0 THEN particleCountPerOrbital
        ELSE (particleCountPerOrbital * 3) \div 10

\* the sets of orbitals (positions in visibleOrbitals) for which
\* renderer.createOrbitalParticles throws during one level: none, or the
\* first
FailureSets(visible) == {{}} \cup {{k} : k \in 1 .. Min(Len(visible), 1)}

\* the positions whose iteration of the orbital loop throws: in
\* generateOrbitalParticles on invalid quantum numbers, or in the renderer
ThrownAt(visible, failed) ==
    failed \cup {k \in 1 .. Len(visible) :
                    ~validateQuantumNumbers(visible[k].n, visible[k].l,
                                            visible[k].m)}

\* the orbital loop with the try block around the loop: the first throw ends
\* the level
RenderLevel_AbortsOnFailure(visible, total, levelIndex, failed) ==
    LET made == {k \in 1 .. Len(visible) :
                    \A j \in 1 .. k : j \notin ThrownAt(visible, failed)}
    IN  [id \in {OrbitalId(visible[k]) : k \in made} |->
            LET k == CHOOSE j \in made : OrbitalId(visible[j]) = id
            IN  ClampCount(OrbitalParticleCount(visible[k], total,
                                                levelIndex, Len(visible)))]

\* the renderer's map after the orbital loop of one level, started from an
\* empty map: generateOrbitalParticles returns ClampCount(count) particles
\* or throws, and a throw of it or of createOrbitalParticles is caught and
\* leaves only that orbital out.  A particle list is represented by its
\* length.
RenderLevel(visible, total, levelIndex, failed) ==
    LET made == (1 .. Len(visible)) \ ThrownAt(visible, failed)
    IN  [id \in {OrbitalId(visible[k]) : k \in made} |->
            LET k == CHOOSE j \in made : OrbitalId(visible[j]) = id
            IN  ClampCount(OrbitalParticleCount(visible[k], total,
                                                levelIndex, Len(visible)))]

\* the factorial cache after the orbital loop of one level: every density
\* evaluated for an orbital makes the two factorial calls of
\* sphericalHarmonic
CacheAfterLevel(cache, visible) ==
    LET c[k \in 0 .. Len(visible)] ==
            IF k = 0 THEN cache
            ELSE LET prev == c[k - 1]
                     o == visible[k]
                 IN  IF validateQuantumNumbers(o.n, o.l, o.m)
                     THEN factorial(factorial(prev, o.l - Abs(o.m)).cache,
                                    o.l + Abs(o.m)).cache
                     ELSE prev
    IN  c[Len(visible)]

\* the particle size the end of updateVisualization sets
FinalParticleSize(visible, current) ==
    IF Len(visible) = 0 THEN current
    ELSE IF \E k \in 1 .. Len(visible) :
                visible[k].n > 1 \/ visible[k].l > 0
         THEN (3 * FP) \div 10
         ELSE PARTICLE_SIZE

\* a run of updateVisualization suspended at "await setTimeout" after
\* levelsDone levels; failed holds the positions whose iteration threw in
\* the run's latest level, shown the renderer's map that level left and
\* caller who called updateVisualization: setAtomicNumber, which awaits it,
\* or the GUI and setOrbitalVisibility, which do not
NewRun(visible, total, failed, shown, caller) ==
    [pc |-> "waiting", visible |-> visible, total |-> total,
     levelsDone |-> 1, overtaken |-> FALSE, failed |-> failed,
     shown |-> shown, caller |-> caller]

\* the run with a cancellation check after the timer: a run that is no longer
\* the newest stops
RunAfterTimer_StopsWhenStale(run, isNewest) ==
    IF ~isNewest THEN [run EXCEPT !.pc = "cancelled"]
    ELSE [run EXCEPT !.levelsDone = run.levelsDone + 1,
                     !.pc = IF run.levelsDone + 1 < 3 THEN "waiting"
                            ELSE "done"]

\* the run after its timer fired and the next level was generated: it waits
\* again after level 2 of 3 and is complete after level 3
RunAfterTimer(run, isNewest) ==
    [run EXCEPT !.levelsDone = run.levelsDone + 1,
                !.pc = IF run.levelsDone + 1 < 3 THEN "waiting" ELSE "done"]

\* ------------------------------------------------------------------------
\* State machine: calls of the engine
\* ------------------------------------------------------------------------
NoDraws == <<>>

GenIdle ==
    [pc |-> "idle", n |-> 0, l |-> 0, m |-> 0, requested |-> 0, count |-> 0,
     sampleSize |-> 0, i |-> 0, maxProb |-> 0, particles |-> <<>>,
     draws |-> NoDraws, radialBuilds |-> 0, thetaBuilds |-> 0,
     phiBuilds |-> 0, pilotPoints |-> {}, points |-> <<>>,
     densities |-> <<>>, cacheAtCall |-> <<>>]

\* no call kept yet
RefNone ==
    [set |-> FALSE, n |-> 0, l |-> 0, m |-> 0, requested |-> 0,
     draws |-> NoDraws, particles |-> <<>>, densities |-> <<>>,
     maxProb |-> 0, Z |-> 0, cache |-> <<>>]

SmpNone ==
    [fn |-> "none", n |-> 0, l |-> 0, m |-> 0, resolution |-> 0, rand |-> 0,
     value |-> 0, path |-> "none", drew |-> FALSE]

Init ==
    /\ Z = 1
    /\ factorialCache = <<>>
    /\ gen = GenIdle
    /\ smp = SmpNone
    /\ ref = RefNone
    /\ app = AppInit
    /\ runs = <<>>
    /\ rendered = <<>>

\* generateOrbitalParticles(n, l, m, particleCount) up to its first loop:
\* validation (which may throw), the clamp and the pilot size
GenStart(n, l, m, particleCount) ==
    /\ gen.pc = "idle"
    /\ smp.fn = "none"
    /\ gen' = IF ~validateQuantumNumbers(n, l, m)
              THEN [GenIdle EXCEPT !.pc = "thrown", !.n = n, !.l = l,
                                   !.m = m, !.requested = particleCount]
              ELSE LET count == ClampCount(particleCount)
                       sampleSize == Min(PILOT_SIZE, count)
                   IN  [GenIdle EXCEPT
                          !.pc = IF sampleSize > 0 THEN "pilot"
                                 ELSE IF count > 0 THEN "batch"
                                 ELSE "returned",
                          !.n = n, !.l = l, !.m = m,
                          !.requested = particleCount, !.count = count,
                          !.sampleSize = sampleSize,
                          !.cacheAtCall = factorialCache]
    /\ UNCHANGED <<Z, factorialCache, smp, ref, appVars>>

\* one iteration of the pilot loop
PilotStep(u1, u2, u3) ==
    /\ gen.pc = "pilot"
    /\ gen.i < gen.sampleSize
    /\ \E pt \in {SamplePointOf[factorialCache, gen.n, gen.l, gen.m,
                               <<u1, u2, u3>>]} :
           /\ gen' = [gen EXCEPT
                        !.maxProb = PilotMax(gen.maxProb, pt.prob),
                        !.i = IF gen.i + 1 < gen.sampleSize
                              THEN gen.i + 1 ELSE 0,
                        !.pc = IF gen.i + 1 < gen.sampleSize THEN "pilot"
                               ELSE IF gen.count > 0 THEN "batch"
                               ELSE "returned",
                        !.draws = gen.draws \o pt.drawn,
                        !.radialBuilds = gen.radialBuilds + 1,
                        !.thetaBuilds = gen.thetaBuilds + 1,
                        !.phiBuilds = gen.phiBuilds
                                      + (IF pt.phiTable THEN 1 ELSE 0),
                        !.pilotPoints = gen.pilotPoints
                                        \cup {<<pt.r, pt.theta, pt.phi>>},
                        !.densities = Append(gen.densities, pt.prob)]
           /\ factorialCache' = pt.cache
    /\ UNCHANGED <<Z, smp, ref, appVars>>

\* one iteration of the batch loop; the call returns after the last one
BatchStep(u1, u2, u3) ==
    /\ gen.pc = "batch"
    /\ gen.i < gen.count
    /\ \E pt \in {SamplePointOf[factorialCache, gen.n, gen.l, gen.m,
                               <<u1, u2, u3>>]} :
           /\ gen' = [gen EXCEPT
                        !.particles = Append(gen.particles,
                                             MakeParticle(pt, gen.maxProb)),
                        !.points = Append(gen.points,
                                          <<pt.r, pt.theta, pt.phi>>),
                        !.densities = Append(gen.densities, pt.prob),
                        !.i = gen.i + 1,
                        !.pc = IF gen.i + 1 < gen.count
                               THEN "batch" ELSE "returned",
                        !.draws = gen.draws \o pt.drawn,
                        !.radialBuilds = gen.radialBuilds + 1,
                        !.thetaBuilds = gen.thetaBuilds + 1,
                        !.phiBuilds = gen.phiBuilds
                                      + (IF pt.phiTable THEN 1 ELSE 0)]
           /\ factorialCache' = pt.cache
    /\ UNCHANGED <<Z, smp, ref, appVars>>

\* the caller takes the particle list, or catches the error
GenDone ==
    /\ gen.pc \in {"returned", "thrown"}
    /\ gen' = GenIdle
    /\ UNCHANGED <<Z, factorialCache, smp, ref, appVars>>

\* a direct call sampleRadius(n, l, resolution), Math.random() giving rand
CallSampleRadius(n, l, resolution, rand) ==
    /\ gen.pc = "idle"
    /\ smp.fn = "none"
    /\ \E s \in {sampleRadius(n, l, resolution, rand)} :
           smp' = [fn |-> "radius", n |-> n, l |-> l, m |-> 0,
                   resolution |-> resolution, rand |-> rand,
                   value |-> s.value, path |-> s.path, drew |-> s.drew]
    /\ UNCHANGED <<Z, factorialCache, gen, ref, appVars>>

CallSampleTheta(l, m, resolution, rand) ==
    /\ gen.pc = "idle"
    /\ smp.fn = "none"
    /\ \E s \in {sampleTheta(l, m, resolution, rand)} :
           smp' = [fn |-> "theta", n |-> 0, l |-> l, m |-> m,
                   resolution |-> resolution, rand |-> rand,
                   value |-> s.value, path |-> s.path, drew |-> s.drew]
    /\ UNCHANGED <<Z, factorialCache, gen, ref, appVars>>

CallSamplePhi(m, resolution, rand) ==
    /\ gen.pc = "idle"
    /\ smp.fn = "none"
    /\ \E s \in {samplePhi(m, resolution, rand)} :
           smp' = [fn |-> "phi", n |-> 0, l |-> 0, m |-> m,
                   resolution |-> resolution, rand |-> rand,
                   value |-> s.value, path |-> s.path, drew |-> s.drew]
    /\ UNCHANGED <<Z, factorialCache, gen, ref, appVars>>

\* the caller takes the sampled value
SampleDone ==
    /\ smp.fn # "none"
    /\ smp' = SmpNone
    /\ UNCHANGED <<Z, factorialCache, gen, ref, appVars>>

Next ==
    \/ \E n \in NValues, l \in LValues, m \in MValues, c \in RequestCounts :
           GenStart(n, l, m, c)
    \/ \E u \in DrawTriples : PilotStep(u[1], u[2], u[3])
    \/ \E u \in DrawTriples : BatchStep(u[1], u[2], u[3])
    \/ GenDone
    \/ \E n \in NValues, l \in LValues, k \in RadialResolutions,
          u \in SamplerDraws : CallSampleRadius(n, l, k, u)
    \/ \E l \in LValues, m \in MValues, k \in AngularResolutions,
          u \in SamplerDraws : CallSampleTheta(l, m, k, u)
    \/ \E m \in MValues, k \in AngularResolutions, u \in SamplerDraws :
           CallSamplePhi(m, k, u)
    \/ SampleDone

Spec == Init /\ [][Next]_vars

\* ------------------------------------------------------------------------
\* State machine: a call of generateOrbitalParticles repeated with the same
\* arguments and the same random draws, the engine's atomic number and the
\* factorial cache changing in between
\* ------------------------------------------------------------------------
IsPrefix(a, b) == Len(a) <= Len(b) /\ SubSeq(b, 1, Len(a)) = a

\* QuantumMechanicsEngine.setAtomicNumber(z)
EngineSetAtomicNumber(z) ==
    /\ gen.pc = "idle"
    /\ smp.fn = "none"
    /\ Z' = ClampAtomicNumber(z)
    /\ UNCHANGED <<factorialCache, gen, smp, ref, appVars>>

\* factorial(k) called from outside the sampler
FactorialCall(k) ==
    /\ gen.pc = "idle"
    /\ smp.fn = "none"
    /\ factorialCache' = factorial(factorialCache, k).cache
    /\ UNCHANGED <<Z, gen, smp, ref, appVars>>

\* a direct call radialWaveFunction(n, l, r)
CallRadialWaveFunction(n, l, r) ==
    /\ gen.pc = "idle"
    /\ smp.fn = "none"
    /\ ~ref.set
    /\ smp' = [SmpNone EXCEPT !.fn = "radialWaveFunction", !.n = n, !.l = l,
                              !.rand = r,
                              !.value = RadialValueOf[n, l, r]]
    /\ UNCHANGED <<Z, factorialCache, gen, ref, appVars>>

\* the first call takes any arguments; a later one repeats the arguments of
\* the call kept in ref
SeededStart(n, l, m, particleCount) ==
    /\ ref.set => <<n, l, m, particleCount>>
                     = <<ref.n, ref.l, ref.m, ref.requested>>
    /\ GenStart(n, l, m, particleCount)

\* a later call is fed the draws of the call kept in ref
SeededPilotStep(u1, u2, u3) ==
    /\ PilotStep(u1, u2, u3)
    /\ ref.set => IsPrefix(gen'.draws, ref.draws)

SeededBatchStep(u1, u2, u3) ==
    /\ BatchStep(u1, u2, u3)
    /\ ref.set => IsPrefix(gen'.draws, ref.draws)

\* the caller keeps the first list returned, with the draws that made it
KeepRun ==
    /\ gen.pc = "returned"
    /\ ~ref.set
    /\ ref' = [set |-> TRUE, n |-> gen.n, l |-> gen.l, m |-> gen.m,
               requested |-> gen.requested, draws |-> gen.draws,
               particles |-> gen.particles, densities |-> gen.densities,
               maxProb |-> gen.maxProb, Z |-> Z, cache |-> gen.cacheAtCall]
    /\ gen' = GenIdle
    /\ UNCHANGED <<Z, factorialCache, smp, appVars>>

\* a later list is dropped after the comparison; so is a caught error
DropRun ==
    /\ gen.pc = "thrown" \/ (gen.pc = "returned" /\ ref.set)
    /\ GenDone

\* ------------------------------------------------------------------------
\* State machine: the application controller
\* ------------------------------------------------------------------------
\* every suspended run has now seen a newer run start
Overtake(rs) ==
    [k \in DOMAIN rs |->
        IF rs[k].pc = "waiting" THEN [rs[k] EXCEPT !.overtaken = TRUE]
        ELSE rs[k]]

\* this.orbitals.filter(o => o.visible)
VisibleOrbitals(orbitals) == SelectSeq(orbitals, LAMBDA o : o.visible)

\* updateVisualization() from its call to its first await with the visible
\* orbitals captured: scene cleared, level 1 of 3 generated, timer set
StartRun(visible, total, caller) ==
    \E failed \in FailureSets(visible) :
    \E shown \in {RenderLevel(visible, total, 0, failed)} :
        /\ rendered' = shown
        /\ factorialCache' = CacheAfterLevel(factorialCache, visible)
        /\ runs' = Append(Overtake(runs),
                          NewRun(visible, total, ThrownAt(visible, failed),
                                 shown, caller))

\* updateVisualization() from its call to its first await, the controller
\* holding the orbitals given
StartVisualization(orbitals, caller) ==
    \E visible \in {VisibleOrbitals(orbitals)} :
        StartRun(visible, app.particleCount, caller)

\* updateVisualization() called by the GUI
UpdateVisualization ==
    /\ gen.pc = "idle"
    /\ smp.fn = "none"
    /\ Len(runs) < MaxRuns
    /\ IF ~app.hasConfiguration
       THEN UNCHANGED <<app, runs, rendered, factorialCache>>
       ELSE /\ StartVisualization(app.orbitals, "gui")
            /\ app' = [app EXCEPT !.spinner = FALSE]
    /\ UNCHANGED <<Z, gen, smp, ref>>

\* the comparison of setAtomicNumber's loop: higher n, then higher l, then
\* higher m
Higher(a, b) ==
    \/ a.n > b.n
    \/ a.n = b.n /\ a.l > b.l
    \/ a.n = b.n /\ a.l = b.l /\ a.m > b.m

\* the visibility pass without the loop that hides every orbital: the outer
\* shell build() marked visible stays visible
OutermostOnly_KeepsOuterShell(built) ==
    LET occupied == {k \in 1 .. Len(built) : built[k].electrons > 0}
        outermost == CHOOSE k \in occupied :
                         \A j \in occupied \ {k} :
                             Higher(built[k], built[j])
    IN  [k \in 1 .. Len(built) |->
            [built[k] EXCEPT !.visible = (built[k].visible \/ k = outermost)]]

\* setAtomicNumber's visibility pass over the orbitals built: every orbital
\* hidden, then the outermost occupied one shown
OutermostOnly(built) ==
    LET occupied == {k \in 1 .. Len(built) : built[k].electrons > 0}
        outermost == CHOOSE k \in occupied :
                         \A j \in occupied \ {k} :
                             Higher(built[k], built[j])
    IN  [k \in 1 .. Len(built) |->
            [built[k] EXCEPT !.visible = (k = outermost)]]

\* the orbitals setAtomicNumber leaves in the controller for each clamped
\* atomic number it is given
InitialOrbitalsOf ==
    [z \in DOMAIN ConfigurationOf |-> OutermostOnly(ConfigurationOf[z])]

\* ApplicationController.setAtomicNumber(atomicNumber) up to the first await
\* of the updateVisualization it calls
AppSetAtomicNumber(atomicNumber) ==
    /\ gen.pc = "idle"
    /\ smp.fn = "none"
    /\ Len(runs) < MaxRuns
    /\ \E clampedZ \in {ClampAtomicNumber(atomicNumber)} :
       \E orbitals \in {InitialOrbitalsOf[clampedZ]} :
           /\ Z' = ClampAtomicNumber(clampedZ)
           /\ app' = [app EXCEPT !.atomicNumber = clampedZ,
                                 !.hasConfiguration = TRUE,
                                 !.orbitals = orbitals,
                                 !.spinner = FALSE]
           /\ StartVisualization(orbitals, "setAtomicNumber")
    /\ UNCHANGED <<gen, smp, ref>>

\* setOrbitalVisibility(n, l, m, visible): nothing happens without a
\* configuration or without such an orbital; the updateVisualization it
\* starts is not awaited
SetOrbitalVisibility(n, l, m, visible) ==
    /\ gen.pc = "idle"
    /\ smp.fn = "none"
    /\ Len(runs) < MaxRuns
    /\ \E found \in {{k \in 1 .. Len(app.orbitals) :
                         OrbitalId(app.orbitals[k]) = <<n, l, m>>}} :
           IF ~app.hasConfiguration \/ found = {}
           THEN UNCHANGED <<app, runs, rendered, factorialCache>>
           ELSE \E orbitals \in
                    {[k \in 1 .. Len(app.orbitals) |->
                         IF k \in found
                         THEN [app.orbitals[k] EXCEPT !.visible = visible]
                         ELSE app.orbitals[k]]} :
                    /\ app' = [app EXCEPT !.orbitals = orbitals,
                                          !.spinner = FALSE]
                    /\ StartVisualization(orbitals, "gui")
    /\ UNCHANGED <<Z, gen, smp, ref>>

\* the timer of run k fires: the scene is cleared and the run's next level is
\* generated; after the last level the spinner is hidden and the particle
\* size set
LevelTimer(k) ==
    /\ gen.pc = "idle"
    /\ smp.fn = "none"
    /\ k \in DOMAIN runs
    /\ runs[k].pc = "waiting"
    /\ \E run \in {runs[k]} :
       \E after \in {RunAfterTimer(run, k = Len(runs))} :
           /\ IF after.levelsDone > run.levelsDone
              THEN \E failed \in FailureSets(run.visible) :
                   \E shown \in {RenderLevel(run.visible, run.total,
                                             run.levelsDone, failed)} :
                       /\ rendered' = shown
                       /\ factorialCache' = CacheAfterLevel(factorialCache,
                                                            run.visible)
                       /\ runs' = [runs EXCEPT ![k] =
                                      [after EXCEPT
                                         !.failed = ThrownAt(run.visible,
                                                             failed),
                                         !.shown = shown]]
              ELSE /\ runs' = [runs EXCEPT ![k] = after]
                   /\ UNCHANGED <<rendered, factorialCache>>
           /\ app' = IF after.pc = "done"
                     THEN [app EXCEPT
                             !.spinner = FALSE,
                             !.particleSize =
                                 FinalParticleSize(run.visible,
                                                   app.particleSize)]
                     ELSE app
    /\ UNCHANGED <<Z, gen, smp, ref>>

NextVis ==
    \/ \E a \in AtomicNumbers : AppSetAtomicNumber(a)
    \/ \E t \in VisibilityTargets, v \in BOOLEAN :
           SetOrbitalVisibility(t[1], t[2], t[3], v)
    \/ UpdateVisualization
    \/ \E k \in 1 .. MaxRuns : LevelTimer(k)

\* the user selects an element, once: the controller's setAtomicNumber sets
\* the engine's Z and generates the first level of the element's outermost
\* orbital
SelectElement(atomicNumber) ==
    /\ runs = <<>>
    /\ AppSetAtomicNumber(atomicNumber)

\* the calls of the replay: either setAtomicNumber, factorial and
\* radialWaveFunction called directly, and generateOrbitalParticles called
\* once and then again with the same arguments and draws
NextSeeded ==
    \/ \E z \in EngineAtomicNumbers : EngineSetAtomicNumber(z)
    \/ \E a \in AtomicNumbers : SelectElement(a)
    \/ \E k \in FactorialArgs : FactorialCall(k)
    \/ \E n \in NValues, l \in LValues, r \in RadialArgs :
           CallRadialWaveFunction(n, l, r)
    \/ SampleDone
    \/ \E n \in NValues, l \in LValues, m \in MValues :
           SeededStart(n, l, m, MIN_PARTICLE_COUNT)
    \/ \E u \in SeededDraws : SeededPilotStep(u[1], u[2], u[3])
    \/ \E u \in SeededDraws : SeededBatchStep(u[1], u[2], u[3])
    \/ KeepRun
    \/ DropRun

SpecSeeded == Init /\ [][NextSeeded]_vars

\* a timer set with setTimeout fires: the browser's event loop runs every
\* due callback, and every handler above terminates
SpecVis ==
    /\ Init
    /\ [][NextVis]_vars
    /\ \A k \in 1 .. MaxRuns : WF_vars(LevelTimer(k))

\* ------------------------------------------------------------------------
\* State machine: the engine's functions and the utilities called directly,
\* one call at a time, the factorial cache carried from call to call
\* ------------------------------------------------------------------------
\* the record of a direct call: its arguments and the value it returned
CallResult(fn, n, l, m, r, theta, phi, value) ==
    [fn |-> fn, n |-> n, l |-> l, m |-> m, resolution |-> 0, rand |-> r,
     value |-> value, path |-> "none", drew |-> FALSE, theta |-> theta,
     phi |-> phi, steps |-> 0]

\* a direct call waveFunction(n, l, m, r, theta, phi)
CallWaveFunction(n, l, m, r, theta, phi) ==
    /\ smp.fn = "none"
    /\ \E psi \in {waveFunction(factorialCache, n, l, m, r, theta, phi)} :
           /\ smp' = CallResult("waveFunction", n, l, m, r, theta, phi,
                                psi.value)
           /\ factorialCache' = psi.cache
    /\ UNCHANGED <<Z, gen, ref, appVars>>

\* a direct call probabilityDensity(n, l, m, r, theta, phi)
CallProbabilityDensity(n, l, m, r, theta, phi) ==
    /\ smp.fn = "none"
    /\ \E pd \in {probabilityDensity(factorialCache, n, l, m, r, theta,
                                     phi)} :
           /\ smp' = CallResult("probabilityDensity", n, l, m, r, theta, phi,
                                pd.value)
           /\ factorialCache' = pd.cache
    /\ UNCHANGED <<Z, gen, ref, appVars>>

\* a direct call factorial(n): the value returned, the cache it leaves and
\* whether the cache served it
CallFactorial(n) ==
    /\ smp.fn = "none"
    /\ \E f \in {factorial(factorialCache, n)} :
           /\ smp' = [CallResult("factorial", n, 0, 0, 0, 0, 0, f.value)
                         EXCEPT !.path =
                             IF n > 1 /\ CacheGet(factorialCache, n) # 0
                             THEN "hit" ELSE "miss"]
           /\ factorialCache' = f.cache
    /\ UNCHANGED <<Z, gen, ref, appVars>>

\* a direct call legendrePolynomial(l, m, x): the value returned and the
\* loop iterations made
CallLegendrePolynomial(l, m, x) ==
    /\ smp.fn = "none"
    /\ smp' = [CallResult("legendrePolynomial", 0, l, m, x, 0, 0,
                          legendrePolynomial(l, m, x))
                  EXCEPT !.steps = LegendreSteps(l, m)]
    /\ UNCHANGED <<Z, factorialCache, gen, ref, appVars>>

\* atomic numbers passed to the constructor of ElectronConfiguration
BuildArgs == 0 .. MAX_ATOMIC_NUMBER + 1

\* new ElectronConfiguration(atomicNumber).build(): the constructor clamps
\* the atomic number, build leaves the orbitals
CallBuild(atomicNumber) ==
    /\ smp.fn = "none"
    /\ \E clamped \in {Max(1, Min(MAX_ATOMIC_NUMBER, atomicNumber))} :
           smp' = CallResult("build", clamped, 0, 0, atomicNumber, 0, 0,
                             BuildOrbitals(clamped))
    /\ UNCHANGED <<Z, factorialCache, gen, ref, appVars>>

\* a direct call angularWaveFunction(l, m, theta, phi): the value of
\* sphericalHarmonic as it is, no exception being thrown
CallAngularWaveFunction(l, m, theta, phi) ==
    /\ smp.fn = "none"
    /\ \E y \in {angularWaveFunction(factorialCache, l, m, theta, phi)} :
           /\ smp' = CallResult("angularWaveFunction", 0, l, m, 0, theta, phi,
                                y.value)
           /\ factorialCache' = y.cache
    /\ UNCHANGED <<Z, gen, ref, appVars>>

\* a direct call sphericalHarmonic(l, m, theta, phi)
CallSphericalHarmonic(l, m, theta, phi) ==
    /\ smp.fn = "none"
    /\ \E y \in {sphericalHarmonic(factorialCache, l, m, theta, phi)} :
           /\ smp' = CallResult("sphericalHarmonic", 0, l, m, 0, theta, phi,
                                y.value)
           /\ factorialCache' = y.cache
    /\ UNCHANGED <<Z, gen, ref, appVars>>

NextCalls ==
    \/ \E n \in NValues, l \in LValues, r \in RadialArgs :
           CallRadialWaveFunction(n, l, r)
    \/ \E n \in NValues, l \in LValues, m \in MValues, r \in RadialArgs,
          theta \in ThetaArgs, phi \in PhiArgs :
           CallWaveFunction(n, l, m, r, theta, phi)
    \/ \E n \in NValues, l \in LValues, m \in MValues, r \in RadialArgs,
          theta \in ThetaArgs, phi \in PhiArgs :
           CallProbabilityDensity(n, l, m, r, theta, phi)
    \/ \E l \in LValues, m \in MValues, theta \in ThetaArgs, phi \in PhiArgs :
           CallAngularWaveFunction(l, m, theta, phi)
    \/ \E l \in LValues, m \in MValues, theta \in ThetaArgs, phi \in PhiArgs :
           CallSphericalHarmonic(l, m, theta, phi)
    \/ \E n \in FactorialCallArgs : CallFactorial(n)
    \/ \E a \in BuildArgs : CallBuild(a)
    \/ \E l \in LValues, m \in MValues, x \in LegendreArgs :
           CallLegendrePolynomial(l, m, x)
    \/ SampleDone

SpecCalls == Init /\ [][NextCalls]_vars

\* ------------------------------------------------------------------------
\* Properties
\* ------------------------------------------------------------------------
\* the quantum numbers of the call in progress violate n >= 1, 0 <= l <= n-1
\* or |m| <= l
GenInvalid ==
    \/ gen.n < 1
    \/ gen.l < 0
    \/ gen.l > gen.n - 1
    \/ gen.m > gen.l
    \/ -gen.m > gen.l

\* C1: generateOrbitalParticles returns exactly
\* max(MIN_PARTICLE_COUNT, min(particleCount, MAX_PARTICLE_COUNT)) particles
\* whatever count is requested, and every iteration of the batch loop appends
\* exactly one particle (after i iterations the list has i particles).
C1_ClampedLength ==
    /\ gen.pc = "returned" =>
          Len(gen.particles) =
              (IF gen.requested < MIN_PARTICLE_COUNT THEN MIN_PARTICLE_COUNT
               ELSE IF gen.requested > MAX_PARTICLE_COUNT
                    THEN MAX_PARTICLE_COUNT
               ELSE gen.requested)
    /\ gen.pc = "batch" => Len(gen.particles) = gen.i
    /\ gen.pc = "pilot" => Len(gen.particles) = 0

C1_Witness ==
    /\ gen.pc = "returned"
    /\ gen.requested < MIN_PARTICLE_COUNT
    /\ Len(gen.particles) = MIN_PARTICLE_COUNT

\* C2: a call with quantum numbers violating n >= 1, 0 <= l <= n-1 or
\* |m| <= l throws before any sampling: it never enters a loop, consumes no
\* random draw, builds no table and produces no particle.
C2_InvalidThrowsBeforeSampling ==
    (gen.pc # "idle" /\ GenInvalid) =>
        /\ gen.pc = "thrown"
        /\ gen.draws = <<>>
        /\ gen.particles = <<>>
        /\ gen.radialBuilds = 0 /\ gen.thetaBuilds = 0 /\ gen.phiBuilds = 0

C2_Witness ==
    gen.pc = "thrown" /\ gen.n = 1 /\ gen.l = 1 /\ gen.m = 0

\* C3 as stated: every particle of the list has a weight in [0, 1].
C3_WeightsInUnitInterval ==
    \A k \in 1 .. Len(gen.particles) :
        /\ gen.particles[k].probability >= 0
        /\ gen.particles[k].probability <= FP

\* the largest distance from the origin a particle of the call in progress
\* can have: SCALE_FACTOR * 3 n^2 a0
GenReach == Mul(3 * gen.n * gen.n * BOHR_RADIUS, SCALE_FACTOR)

\* C3 amended: every particle has a finite position, within
\* SCALE_FACTOR * 3 n^2 a0 of the origin on each axis, and a weight >= 0; a
\* particle sampled at a point that the pilot pass drew too has a weight
\* <= 1; with a pilot maximum of 0 every weight is 0.
C3_WeightsBoundedByPilot ==
    \A k \in 1 .. Len(gen.particles) :
        /\ gen.particles[k].probability >= 0
        /\ gen.points[k] \in gen.pilotPoints =>
              gen.particles[k].probability <= FP
        /\ gen.maxProb = 0 => gen.particles[k].probability = 0
        /\ \A c \in {gen.particles[k].position.x,
                      gen.particles[k].position.y,
                      gen.particles[k].position.z} :
               c # NaN /\ c >= -GenReach /\ c <= GenReach

C3_Witness ==
    /\ gen.pc = "returned"
    /\ \E k \in 1 .. Len(gen.particles) :
          /\ gen.points[k] \in gen.pilotPoints
          /\ gen.particles[k].probability = FP
    /\ \E k \in 1 .. Len(gen.particles) :
          /\ gen.points[k] \notin gen.pilotPoints
          /\ gen.particles[k].probability > 0

\* C4: every updateVisualization run that has started executes all three
\* progressive levels: a run is never removed or cancelled, its captured
\* orbitals never change, each step takes it forward by at most one level,
\* and a run suspended between levels eventually completes its third level,
\* whatever newer runs or setAtomicNumber calls start in the meantime: again
\* and again every run started so far is complete.
C4_EveryRunCompletesThreeLevels ==
    /\ [][/\ Len(runs') >= Len(runs)
          /\ \A k \in DOMAIN runs :
                /\ runs'[k].visible = runs[k].visible
                /\ runs'[k].pc \in {"waiting", "done"}
                /\ runs'[k].levelsDone \in {runs[k].levelsDone,
                                            runs[k].levelsDone + 1}
                /\ runs'[k].pc = "done" <=> runs'[k].levelsDone = 3]_vars
    /\ []<>(\A k \in DOMAIN runs :
                runs[k].pc = "done" /\ runs[k].levelsDone = 3)

C4_Witness ==
    \E k \in DOMAIN runs :
        /\ runs[k].pc = "done"
        /\ runs[k].levelsDone = 3
        /\ runs[k].overtaken
        /\ k < Len(runs)
        /\ app.atomicNumber = 5

\* C5: within one generateOrbitalParticles call each of the three cumulative
\* tables is built at most once.
C5_TablesBuiltOnce ==
    /\ gen.radialBuilds <= 1
    /\ gen.thetaBuilds <= 1
    /\ gen.phiBuilds <= 1

\* the direct sampler call's table has a zero sum
SmpDegenerate ==
    \/ smp.fn = "radius"
       /\ TableSum(RadialTable(smp.n, smp.l, smp.resolution)) = 0
    \/ smp.fn = "theta"
       /\ TableSum(ThetaTable(smp.l, smp.m, smp.resolution)) = 0
    \/ smp.fn = "phi" /\ smp.m # 0
       /\ TableSum(PhiTable(smp.m, smp.resolution)) = 0

SmpTable ==
    IF smp.fn = "radius" THEN RadialTable(smp.n, smp.l, smp.resolution)
    ELSE IF smp.fn = "theta" THEN ThetaTable(smp.l, smp.m, smp.resolution)
    ELSE PhiTable(smp.m, smp.resolution)

\* the value of grid index i (0-based) of the direct sampler call
SmpGrid(i) ==
    IF smp.fn = "radius"
    THEN Over(BOHR_RADIUS, 100)
         + Mul(Div(i, smp.resolution),
               3 * smp.n * smp.n * BOHR_RADIUS - Over(BOHR_RADIUS, 100))
    ELSE IF smp.fn = "theta"
    THEN ThetaEpsilon + Mul(Div(i, smp.resolution), PI - 2 * ThetaEpsilon)
    ELSE Mul(Div(i, smp.resolution), 2 * PI)

\* C7: for a non-degenerate table, sampleRadius, sampleTheta and samplePhi
\* (m # 0) return the grid value at the least index whose normalized
\* cumulative probability is >= the draw; the last normalized entry is 1 and
\* the fall-through return is never reached.
C7_LeastIndexAtOrAboveDraw ==
    /\ smp.path # "fallthrough"
    /\ (smp.fn \in {"radius", "theta"} \/ (smp.fn = "phi" /\ smp.m # 0))
       /\ ~SmpDegenerate
       => LET cdf == SmpTable
              sum == cdf[Len(cdf)]
          IN  /\ smp.path = "scan"
              /\ Div(cdf[Len(cdf)], sum) = FP
              /\ \E i \in 0 .. Len(cdf) - 1 :
                    /\ smp.value = SmpGrid(i)
                    /\ Div(cdf[i + 1], sum) >= smp.rand
                    /\ \A j \in 0 .. i - 1 : Div(cdf[j + 1], sum) < smp.rand

C7_Witness ==
    /\ smp.fn = "phi" /\ smp.m < 0 /\ smp.rand = 0
    /\ smp.resolution = ANGULAR_RESOLUTION
    /\ smp.path = "scan"
    /\ smp.value = 0

\* C8: for valid quantum numbers every sampler returns a value inside its
\* range on every path: sampleRadius in [0.01 a0, 3 n^2 a0], sampleTheta in
\* [0.001, pi - 0.001], samplePhi in [0, 2 pi).
C8_SampledValueInRange ==
    /\ (smp.fn = "radius" /\ smp.n >= 1 /\ smp.l >= 0 /\ smp.l < smp.n) =>
          /\ smp.value >= Over(BOHR_RADIUS, 100)
          /\ smp.value <= 3 * smp.n * smp.n * BOHR_RADIUS
    /\ (smp.fn = "theta" /\ smp.l >= 0 /\ smp.m <= smp.l /\ -smp.m <= smp.l)
          => /\ smp.value >= Over(FP, 1000)
             /\ smp.value <= PI - Over(FP, 1000)
    /\ smp.fn = "phi" => (smp.value >= 0 /\ smp.value < 2 * PI)

C8_Witness ==
    /\ smp.fn = "phi" /\ smp.m # 0 /\ smp.path = "scan"
    /\ smp.value = Mul(Div(ANGULAR_RESOLUTION - 1, ANGULAR_RESOLUTION), 2 * PI)

\* the call in progress repeats the arguments of the call kept in ref
SameCall ==
    /\ ref.set
    /\ gen.pc \in {"pilot", "batch", "returned"}
    /\ <<gen.n, gen.l, gen.m, gen.requested>>
         = <<ref.n, ref.l, ref.m, ref.requested>>

\* C9: two generateOrbitalParticles calls with the same (n, l, m, count) fed
\* the same sequence of draws return identical particle lists, whatever the
\* engine's Z and the factorial cache are at either call and whatever calls
\* came before; while the later call runs, its list is a prefix of the
\* earlier one.
C9_SameDrawsSameParticles ==
    SameCall =>
        /\ IsPrefix(gen.particles, ref.particles)
        /\ (gen.pc = "returned" /\ gen.draws = ref.draws) =>
               gen.particles = ref.particles

C9_Witness ==
    /\ SameCall
    /\ gen.pc = "returned"
    /\ gen.draws = ref.draws
    /\ gen.m # 0
    /\ Len(gen.particles) >= MIN_PARTICLE_COUNT
    /\ gen.particles[1].probability > 0
    /\ gen.cacheAtCall # ref.cache
    /\ ref.cache = <<>>

\* C10: engine.Z never affects a computation: radialWaveFunction(n, l, r)
\* called directly returns the value of the formula with Z = 1 whatever
\* setAtomicNumber calls came before, and a call of generateOrbitalParticles
\* repeated with the same draws under another Z computes the same densities,
\* the same pilot maximum and the same particles.
C10_AtomicNumberNeverRead ==
    /\ smp.fn = "radialWaveFunction" =>
          smp.value =
              (IF smp.n < 1 \/ smp.l < 0 \/ smp.l > smp.n - 1 \/ smp.rand < 0
               THEN 0
               ELSE IF smp.rand = 0 THEN (IF smp.l = 0 THEN FP ELSE 0)
               ELSE RadialFormula(1, smp.n, smp.l, smp.rand))
    /\ (SameCall /\ Z # ref.Z) =>
          /\ IsPrefix(gen.densities, ref.densities)
          /\ (gen.pc = "returned" /\ gen.draws = ref.draws) =>
                 /\ gen.densities = ref.densities
                 /\ gen.maxProb = ref.maxProb
                 /\ gen.particles = ref.particles

C10_Witness ==
    /\ SameCall
    /\ gen.pc = "returned"
    /\ gen.draws = ref.draws
    /\ ref.Z = 1
    /\ Z = MAX_ATOMIC_NUMBER
    /\ gen.maxProb > 0
    /\ gen.n = 2

\* C11: radialWaveFunction, waveFunction and probabilityDensity return exactly
\* 0 whenever the quantum numbers they are given violate n >= 1, 0 <= l < n
\* or, for waveFunction and probabilityDensity, |m| <= l: the validation
\* error is caught inside the function and never reaches the caller.
CallInvalid ==
    \/ smp.n < 1
    \/ smp.l < 0
    \/ smp.l >= smp.n
    \/ smp.fn # "radialWaveFunction" /\ Abs(smp.m) > smp.l

C11_InvalidNumbersYieldZero ==
    (/\ smp.fn \in {"radialWaveFunction", "waveFunction",
                    "probabilityDensity"}
     /\ CallInvalid)
        => smp.value = 0

\* waveFunction was called with |m| > l at a positive radius and returned 0
C11_Witness ==
    /\ smp.fn = "waveFunction"
    /\ smp.n = 2 /\ smp.l = 1 /\ smp.m = 2
    /\ smp.rand > 0
    /\ smp.value = 0

\* C12: angularWaveFunction and sphericalHarmonic return the fallback 0, a
\* finite value, whenever l is negative or |m| > l; NaN is never returned to
\* the caller.
C12_AngularFallbackZero ==
    (/\ smp.fn \in {"angularWaveFunction", "sphericalHarmonic"}
     /\ (smp.l < 0 \/ Abs(smp.m) > smp.l))
        => smp.value = 0

\* n! as an integer, for n >= 0
ExactFactorial(n) ==
    LET f[i \in 0 .. n] == IF i = 0 THEN 1 ELSE i * f[i - 1]
    IN  f[n]

\* C13 as stated: every factorial call returns 0 for n < 0 and exactly n! for
\* n >= 0, served from the cache or not, and every cache entry under key k
\* equals k!.
C13_FactorialExact ==
    /\ smp.fn = "factorial"
           => smp.value = (IF smp.n < 0 THEN 0 ELSE ExactFactorial(smp.n))
    /\ \A k \in DOMAIN factorialCache :
           factorialCache[k] = ExactFactorial(k)

\* C13, amended: every factorial call returns 0 for n < 0 and, for n >= 0,
\* the product the loop computes in Number arithmetic, the same value on a
\* cache hit as on a miss; that product is n! exactly when n! fits the
\* significand.  Every cache entry under key k is the loop's product for k.
C13_FactorialExactWhileRepresentable ==
    /\ smp.fn = "factorial"
           => /\ smp.n < 0 => smp.value = 0
              /\ smp.n >= 0 => smp.value = FactorialLoop(smp.n)
              /\ (smp.n >= 0 /\ RoundNumber(ExactFactorial(smp.n))
                                   = ExactFactorial(smp.n))
                     => smp.value = ExactFactorial(smp.n)
    /\ \A k \in DOMAIN factorialCache :
           /\ factorialCache[k] = FactorialLoop(k)
           /\ RoundNumber(ExactFactorial(k)) = ExactFactorial(k)
                  => factorialCache[k] = ExactFactorial(k)

\* factorial(4) was served from the cache and returned 4!, while the cache
\* holds an entry that is not the factorial of its key
C13_Witness ==
    /\ smp.fn = "factorial"
    /\ smp.n = 4
    /\ smp.path = "hit"
    /\ smp.value = ExactFactorial(4)
    /\ \E k \in DOMAIN factorialCache :
           factorialCache[k] # ExactFactorial(k)

\* C14: a throw in the try block of one visible orbital of updateVisualization
\* leaves only that orbital out: after every level a run has executed, the
\* renderer was given every visible orbital whose iteration did not throw;
\* the run goes on to its later levels: it completes with the spinner hidden
\* and stays complete, and again and again every run started so far has
\* completed its third level.
C14_FailureIsolatedToOrbital ==
    /\ [](\A k \in DOMAIN runs :
             DOMAIN runs[k].shown =
                 {OrbitalId(runs[k].visible[j]) :
                      j \in (1 .. Len(runs[k].visible)) \ runs[k].failed})
    /\ [][\A k \in DOMAIN runs :
             /\ (runs[k].pc # "done" /\ runs'[k].pc = "done")
                    => ~app'.spinner
             /\ runs[k].pc = "done" => runs'[k] = runs[k]]_vars
    /\ []<>(\A k \in DOMAIN runs :
                runs[k].pc = "done" /\ runs[k].levelsDone = 3)

\* a run of two visible orbitals has completed; in its last level the
\* iteration of the first orbital threw and the second orbital was rendered
C14_Witness ==
    \E k \in DOMAIN runs :
        /\ runs[k].pc = "done"
        /\ Len(runs[k].visible) = 2
        /\ runs[k].failed = {1}
        /\ DOMAIN runs[k].shown = {OrbitalId(runs[k].visible[2])}
        /\ rendered = runs[k].shown
        /\ ~app.spinner

\* C15: for valid (n, l) and a negative radius radialWaveFunction returns 0.
C15_NegativeRadiusYieldsZero ==
    (/\ smp.fn = "radialWaveFunction"
     /\ validateQuantumNumbers(smp.n, smp.l, 0)
     /\ smp.rand < 0)
        => smp.value = 0

C15_Witness ==
    /\ smp.fn = "radialWaveFunction"
    /\ smp.n = 1 /\ smp.l = 0
    /\ smp.rand = -FP
    /\ smp.value = 0

\* C16: at the origin radialWaveFunction(n, 0, 0) returns 1 for every valid
\* n, and radialWaveFunction(n, l, 0) returns 0 for every valid (n, l) with
\* l > 0.
C16_OriginValue ==
    (/\ smp.fn = "radialWaveFunction"
     /\ validateQuantumNumbers(smp.n, smp.l, 0)
     /\ smp.rand = 0)
        => smp.value = (IF smp.l = 0 THEN FP ELSE 0)

C16_Witness ==
    /\ smp.fn = "radialWaveFunction"
    /\ smp.n = 2 /\ smp.l = 1
    /\ smp.rand = 0
    /\ smp.value = 0

\* C17: legendrePolynomial(l, m, x) returns 0 for every x whenever |m| > l,
\* negative l included, and has then made no iteration of the P_m^m loop or
\* of the recurrence.
C17_LegendreZeroOutsideOrder ==
    (smp.fn = "legendrePolynomial" /\ Abs(smp.m) > smp.l)
        => (smp.value = 0 /\ smp.steps = 0)

\* legendrePolynomial(-1, 1, x) was called with x outside [-1, 1]
C17_Witness ==
    /\ smp.fn = "legendrePolynomial"
    /\ smp.l = -1 /\ smp.m = 1
    /\ smp.rand = -2 * FP
    /\ smp.value = 0 /\ smp.steps = 0

\* C18: after build() the electrons summed over all orbitals created equal
\* the atomic number, for every atomic number 1..118: the subshells with
\* n <= 7 and l <= 3 hold them all and none is dropped or duplicated.
C18_TotalElectronsEqualZ ==
    smp.fn = "build"
        => /\ smp.n \in 1 .. MAX_ATOMIC_NUMBER
           /\ getTotalElectrons(smp.value) = smp.n

C18_Witness ==
    /\ smp.fn = "build"
    /\ smp.n = MAX_ATOMIC_NUMBER
    /\ smp.rand = MAX_ATOMIC_NUMBER
    /\ getTotalElectrons(smp.value) = MAX_ATOMIC_NUMBER

\* the electrons of each subshell (n, l) in a list of orbitals
SubshellElectrons(orbitals) ==
    [s \in Subshells |->
        getTotalElectrons(SelectSeq(orbitals,
                                    LAMBDA o : o.n = s[1] /\ o.l = s[2]))]

\* C19: after build(), with the subshells ordered by increasing n + l and
\* then increasing n, a subshell holds electrons only if every earlier
\* subshell holds its full 2 * (2l + 1); so at most one subshell is partly
\* filled.
C19_AufbauOrder ==
    smp.fn = "build"
        => \E e \in {SubshellElectrons(smp.value)} :
               /\ \A a, b \in Subshells :
                      (/\ \/ a[1] + a[2] < b[1] + b[2]
                          \/ a[1] + a[2] = b[1] + b[2] /\ a[1] < b[1]
                       /\ e[b] > 0)
                          => e[a] = 2 * (2 * a[2] + 1)
               /\ Cardinality({a \in Subshells :
                                  e[a] > 0 /\ e[a] < 2 * (2 * a[2] + 1)})
                      <= 1

\* potassium: 4s holds one electron and is partly filled, 3p before it is
\* full and 3d after it is empty
C19_Witness ==
    /\ smp.fn = "build"
    /\ smp.n = 19
    /\ SubshellElectrons(smp.value)[<<4, 0>>] = 1
    /\ SubshellElectrons(smp.value)[<<3, 1>>] = 6
    /\ SubshellElectrons(smp.value)[<<3, 2>>] = 0

\* C20: after build() every orbital holds 0, 1 or 2 electrons, and an orbital
\* holds 2 only when every orbital of its subshell holds at least 1.
C20_HundSingleBeforePair ==
    smp.fn = "build"
        => \A i \in 1 .. Len(smp.value) :
               /\ smp.value[i].electrons \in {0, 1, 2}
               /\ smp.value[i].electrons = 2
                      => \A j \in 1 .. Len(smp.value) :
                             (/\ smp.value[j].n = smp.value[i].n
                              /\ smp.value[j].l = smp.value[i].l)
                                 => smp.value[j].electrons >= 1

\* oxygen: the four 2p electrons are one pair and two single electrons
C20_Witness ==
    /\ smp.fn = "build"
    /\ smp.n = 8
    /\ \E i, j \in 1 .. Len(smp.value) :
           /\ smp.value[i].n = 2 /\ smp.value[i].l = 1
           /\ smp.value[j].n = 2 /\ smp.value[j].l = 1
           /\ smp.value[i].electrons = 2
           /\ smp.value[j].electrons = 1

\* the orbitals given have exactly one visible orbital, and it is the one
\* holding electrons that is greatest by n, then l, then m
OnlyOutermostVisible(orbitals) ==
    \E k \in 1 .. Len(orbitals) :
        /\ orbitals[k].visible
        /\ orbitals[k].electrons > 0
        /\ \A j \in (1 .. Len(orbitals)) \ {k} :
               /\ ~orbitals[j].visible
               /\ orbitals[j].electrons > 0
                      => \/ orbitals[j].n < orbitals[k].n
                         \/ /\ orbitals[j].n = orbitals[k].n
                            /\ orbitals[j].l < orbitals[k].l
                         \/ /\ orbitals[j].n = orbitals[k].n
                            /\ orbitals[j].l = orbitals[k].l
                            /\ orbitals[j].m < orbitals[k].m

\* C21 as stated: when a setAtomicNumber call completes (the
\* updateVisualization it awaits has finished its third level), exactly one
\* orbital of the configuration is visible, the outermost occupied one.
C21_OneVisibleAtCompletion ==
    [][\A k \in DOMAIN runs :
          (/\ runs[k].caller = "setAtomicNumber"
           /\ runs[k].pc # "done"
           /\ runs'[k].pc = "done")
              => OnlyOutermostVisible(app'.orbitals)]_vars

\* C21, amended: when setAtomicNumber calls updateVisualization, exactly one
\* orbital of the configuration it built is visible, the outermost occupied
\* one, and the run it awaits has captured exactly that orbital and keeps it
\* to its completion, whatever visibility changes are made meanwhile.
C21_OneVisibleWhenVisualized ==
    /\ [][(/\ Len(runs') = Len(runs) + 1
           /\ runs'[Len(runs')].caller = "setAtomicNumber")
              => /\ OnlyOutermostVisible(app'.orbitals)
                 /\ runs'[Len(runs')].visible
                        = VisibleOrbitals(app'.orbitals)]_vars
    /\ [](\A k \in DOMAIN runs :
             runs[k].caller = "setAtomicNumber"
                 => /\ Len(runs[k].visible) = 1
                    /\ runs[k].visible[1].electrons > 0)

\* a setAtomicNumber call for boron has completed after the 1s orbital was
\* made visible during its awaits: its run rendered one orbital and the
\* configuration now shows two
C21_Witness ==
    /\ Len(runs) = 2
    /\ runs[1].caller = "setAtomicNumber"
    /\ runs[1].pc = "done"
    /\ Len(runs[1].visible) = 1
    /\ runs[2].caller = "gui"
    /\ runs[2].pc = "waiting"
    /\ app.atomicNumber = 5
    /\ Len(VisibleOrbitals(app.orbitals)) = 2

\* particleCountPerOrbital of the latest level of a run: the level's share
\* of the total, 30%, 60% or 100%, divided among the visible orbitals
RunPerOrbital(run) ==
    (IF run.levelsDone = 1 THEN (run.total * 3) \div 10
     ELSE IF run.levelsDone = 2 THEN (run.total * 6) \div 10
     ELSE run.total) \div Max(Len(run.visible), 1)

\* the positions of the orbitals of a run rendered in its latest level that
\* hold no electron, and of those that hold some
RunEmpty(run) ==
    {j \in (1 .. Len(run.visible)) \ run.failed :
        run.visible[j].electrons = 0}

RunOccupied(run) ==
    {j \in (1 .. Len(run.visible)) \ run.failed :
        run.visible[j].electrons > 0}

SettingNumbers == {-FP, 2 * FP}

SettingAxes == {"x", "y", "z"}

\* object[field] = value: the field is created when the object lacks it
SetField(object, field, value) ==
    [f \in DOMAIN object \cup {field} |->
        IF f = field THEN value ELSE object[f]]

\* a settings method that assigned the state given and called the renderer:
\* threw tells whether that call raised a TypeError
SettingsCall(fn, arg, displaySettings, cameraSettings, renderer, threw) ==
    /\ gen.pc = "idle"
    /\ smp.fn = "none"
    /\ app.setterCalls < MaxSetterCalls
    /\ app' = [app EXCEPT
                 !.displaySettings = displaySettings,
                 !.cameraSettings = cameraSettings,
                 !.renderer = renderer,
                 !.call = [fn |-> fn, arg |-> arg,
                           renderer |-> app.initialized, threw |-> threw],
                 !.setterCalls = app.setterCalls + 1]
    /\ UNCHANGED <<Z, factorialCache, gen, smp, ref, runs, rendered>>

\* setAutoRotate(enabled)
SetAutoRotate(enabled) ==
    SettingsCall("setAutoRotate", enabled, app.displaySettings,
                 SetField(app.cameraSettings, "autoRotate", enabled),
                 app.renderer, FALSE)

\* setRotationSpeed(speed)
SetRotationSpeed(speed) ==
    SettingsCall("setRotationSpeed", speed, app.displaySettings,
                 SetField(app.cameraSettings, "rotationSpeed", speed),
                 app.renderer, FALSE)

\* setRotationAxis(axis)
SetRotationAxis(axis) ==
    SettingsCall("setRotationAxis", axis, app.displaySettings,
                 SetField(app.cameraSettings, "rotationAxis", axis),
                 app.renderer, FALSE)

\* setScale(scale)
SetScale(scale) ==
    SettingsCall("setScale", scale,
                 SetField(app.displaySettings, "scale", scale),
                 app.cameraSettings, app.renderer, FALSE)

\* setAnimationSpeed(speed)
SetAnimationSpeed(speed) ==
    SettingsCall("setAnimationSpeed", speed,
                 SetField(app.displaySettings, "animationSpeed", speed),
                 app.cameraSettings, app.renderer, FALSE)

\* setAnimationEnabled(enabled)
SetAnimationEnabled(enabled) ==
    SettingsCall("setAnimationEnabled", enabled,
                 SetField(app.displaySettings, "animationEnabled", enabled),
                 app.cameraSettings, app.renderer, FALSE)

\* setClippingEnabled(enabled): with a renderer, the renderer's
\* setClippingEnabled(enabled) as well
SetClippingEnabled(enabled) ==
    SettingsCall("setClippingEnabled", enabled,
                 SetField(app.displaySettings, "clippingEnabled", enabled),
                 app.cameraSettings,
                 IF app.initialized
                 THEN [app.renderer EXCEPT !.clippingEnabled = enabled]
                 ELSE app.renderer,
                 FALSE)

\* setClippingPosition(position): the position is recorded; with a renderer,
\* this.renderer.setClippingPosition is called, which VisualizationRenderer
\* does not define (its method is setClipPosition(axis, position)): the call
\* raises a TypeError
SetClippingPosition(position) ==
    SettingsCall("setClippingPosition", position,
                 SetField(app.displaySettings, "clippingPosition", position),
                 app.cameraSettings, app.renderer, app.initialized)

\* setClippingAxis(axis): the axis is recorded; with a renderer,
\* this.renderer.setClippingAxis is called, which VisualizationRenderer does
\* not define: the call raises a TypeError before a position is stored
SetClippingAxis(axis) ==
    SettingsCall("setClippingAxis", axis,
                 SetField(app.displaySettings, "clippingAxis", axis),
                 app.cameraSettings, app.renderer, app.initialized)

\* initialize(canvas) up to the first await of the setAtomicNumber it calls:
\* the engine, the sampler and the renderer created, then
\* setAtomicNumber(this.state.atomicNumber)
Initialize ==
    /\ gen.pc = "idle"
    /\ smp.fn = "none"
    /\ ~app.initialized
    /\ Len(runs) < MaxRuns
    /\ \E clampedZ \in {ClampAtomicNumber(app.atomicNumber)} :
       \E orbitals \in {InitialOrbitalsOf[clampedZ]} :
           /\ Z' = ClampAtomicNumber(clampedZ)
           /\ app' = [app EXCEPT
                        !.initialized = TRUE,
                        !.renderer = RendererInit,
                        !.atomicNumber = clampedZ,
                        !.hasConfiguration = TRUE,
                        !.orbitals = orbitals,
                        !.spinner = FALSE,
                        !.call = [fn |-> "initialize", arg |-> 0,
                                  renderer |-> FALSE, threw |-> FALSE]]
           /\ StartRun(VisibleOrbitals(orbitals), app.particleCount,
                       "setAtomicNumber")
    /\ UNCHANGED <<gen, smp, ref>>

\* the state.displaySettings reset() assigns, without particleCount and
\* particleSize
ResetDisplaySettings == [opacity |-> PARTICLE_OPACITY]

\* reset() up to the first await of the setAtomicNumber(1) it calls: the
\* state assigned, then setAtomicNumber(1), which raises a TypeError on a
\* controller without an engine
Reset ==
    /\ gen.pc = "idle"
    /\ smp.fn = "none"
    /\ Len(runs) < MaxRuns
    /\ \E assigned \in
           {[app EXCEPT !.atomicNumber = 1,
                        !.particleCount = DEFAULT_PARTICLE_COUNT,
                        !.particleSize = PARTICLE_SIZE,
                        !.displaySettings = ResetDisplaySettings,
                        !.cameraSettings = DefaultCameraSettings,
                        !.call = [fn |-> "reset", arg |-> 0,
                                  renderer |-> app.initialized,
                                  threw |-> ~app.initialized]]} :
           IF ~app.initialized
           THEN /\ app' = assigned
                /\ UNCHANGED <<Z, factorialCache, runs, rendered>>
           ELSE \E orbitals \in {InitialOrbitalsOf[1]} :
                    /\ Z' = 1
                    /\ app' = [assigned EXCEPT !.hasConfiguration = TRUE,
                                               !.orbitals = orbitals,
                                               !.spinner = FALSE]
                    /\ StartRun(VisibleOrbitals(orbitals),
                                assigned.particleCount, "setAtomicNumber")
    /\ UNCHANGED <<gen, smp, ref>>

NextSettings ==
    \/ Initialize
    \/ Reset
    \/ \E enabled \in BOOLEAN : SetAutoRotate(enabled)
    \/ \E speed \in SettingNumbers : SetRotationSpeed(speed)
    \/ \E axis \in SettingAxes : SetRotationAxis(axis)
    \/ \E scale \in SettingNumbers : SetScale(scale)
    \/ \E speed \in SettingNumbers : SetAnimationSpeed(speed)
    \/ \E enabled \in BOOLEAN : SetAnimationEnabled(enabled)
    \/ \E enabled \in BOOLEAN : SetClippingEnabled(enabled)
    \/ \E position \in SettingNumbers : SetClippingPosition(position)
    \/ \E axis \in SettingAxes : SetClippingAxis(axis)
    \/ \E k \in 1 .. MaxRuns : LevelTimer(k)

SpecSettings == Init /\ [][NextSettings]_vars

\* the state reset() is to restore: that of the constructor
IsDefaultState ==
    /\ app.atomicNumber = 1
    /\ app.particleCount = DEFAULT_PARTICLE_COUNT
    /\ app.particleSize = PARTICLE_SIZE
    /\ DOMAIN app.displaySettings = DOMAIN DefaultDisplaySettings
    /\ \A f \in DOMAIN DefaultDisplaySettings :
           app.displaySettings[f] = DefaultDisplaySettings[f]
    /\ DOMAIN app.cameraSettings = DOMAIN DefaultCameraSettings
    /\ \A f \in DOMAIN DefaultCameraSettings :
           app.cameraSettings[f] = DefaultCameraSettings[f]

\* reset() has returned: it was the latest call, did not raise, and the
\* updateVisualization it awaited is complete
ResetReturned ==
    /\ app.call.fn = "reset"
    /\ ~app.call.threw
    /\ Len(runs) > 0
    /\ runs[Len(runs)].pc = "done"

\* C23: whenever reset() has returned on an initialized controller, whatever
\* settings methods were called before it, the atomic number, every field of
\* displaySettings and cameraSettings have the values the constructor gave
\* them.
C23_ResetRestoresDefaults == ResetReturned => IsDefaultState

\* C24: whenever the latest call is setClippingPosition(p) or
\* setClippingAxis(a) on a controller with a renderer, the call did not
\* raise and its argument is recorded; after setClippingPosition(p) the
\* renderer's plane of the selected axis has the constant -p.
C24_ClippingSettersComplete ==
    /\ (app.call.fn = "setClippingPosition" /\ app.call.renderer) =>
           /\ ~app.call.threw
           /\ app.displaySettings.clippingPosition = app.call.arg
           /\ app.renderer.clippingPlanes[app.displaySettings.clippingAxis]
                  = -app.call.arg
    /\ (app.call.fn = "setClippingAxis" /\ app.call.renderer) =>
           /\ ~app.call.threw
           /\ app.displaySettings.clippingAxis = app.call.arg

\* the probability mass of grid index i (0-based) in the table of the direct
\* sampler call: the entry the table's loop added at that index
SmpMass(i) == IF i = 0 THEN SmpTable[1] ELSE SmpTable[i + 1] - SmpTable[i]

\* the grid indices at which the scan of the direct sampler call returned
SmpReturned ==
    {i \in 0 .. Len(SmpTable) - 1 :
        /\ i = ScanCdf(SmpTable, TableSum(SmpTable), smp.rand)
        /\ smp.value = SmpGrid(i)}

\* C25: for a non-degenerate table and any draw, 0 included, samplePhi
\* (m # 0) returns a grid point whose own probability mass is not zero; with
\* m < 0 it never returns phi = 0, where sin^2(|m| * phi) = 0. (The first
\* entries of the radial and polar tables are positive in the source but
\* below the resolution of the arithmetic here, so the property is stated
\* for the azimuthal table, whose first entry is exactly sin^2(0) = 0 or
\* cos^2(0) = 1.)
C25_NeverReturnsZeroMassPoint ==
    (smp.fn = "phi" /\ smp.m # 0 /\ ~SmpDegenerate)
        => /\ SmpReturned # {}
           /\ \A i \in SmpReturned : SmpMass(i) # 0
           /\ smp.m < 0 => smp.value # 0

\* with a draw above 0 every sampler returns a grid point whose mass is not
\* zero: a point without mass repeats the cumulative value before it, at
\* which the scan has returned already
C25_PositiveDrawAvoidsZeroMass ==
    ((smp.fn \in {"radius", "theta"} \/ (smp.fn = "phi" /\ smp.m # 0))
     /\ ~SmpDegenerate /\ smp.rand > 0)
        => /\ SmpReturned # {}
           /\ \A i \in SmpReturned : SmpMass(i) # 0

\* C26: every orbital build() creates, for every atomic number 1 .. 118,
\* has n >= 1, 0 <= l <= n - 1 and -l <= m <= l, so validateQuantumNumbers
\* accepts it and generateOrbitalParticles raises no validation error for it,
\* and no two orbitals of one configuration have the same (n, l, m).
C26_BuiltOrbitalsValidAndDistinct ==
    smp.fn = "build"
        => /\ smp.n \in 1 .. MAX_ATOMIC_NUMBER
           /\ \A k \in 1 .. Len(smp.value) :
                 /\ smp.value[k].n >= 1
                 /\ smp.value[k].l \in 0 .. smp.value[k].n - 1
                 /\ smp.value[k].m \in -smp.value[k].l .. smp.value[k].l
                 /\ validateQuantumNumbers(smp.value[k].n, smp.value[k].l,
                                           smp.value[k].m)
           /\ \A j, k \in 1 .. Len(smp.value) :
                 OrbitalId(smp.value[j]) = OrbitalId(smp.value[k]) => j = k

C26_Witness ==
    /\ smp.fn = "build"
    /\ smp.n = 92
    /\ \E k \in 1 .. Len(smp.value) :
           OrbitalId(smp.value[k]) = <<5, 3, -3>>
    /\ \E k \in 1 .. Len(smp.value) :
           OrbitalId(smp.value[k]) = <<7, 0, 0>>

====
